---- MODULE Spec2Model ----
(***************************************************************************)
(* Model of the polarimetric differential imaging core of vampires_dpp:    *)
(* the frame-set matcher, the double/triple differential combiner, the     *)
(* calibration entry points and the Mueller-matrix correction of           *)
(* make_stokes_image (src/src/vampires_dpp/pdi/processing.py).             *)
(*                                                                         *)
(* Pixel values are exact rationals <<n, d>> in lowest terms with d > 0;   *)
(* an ndarray is a function from its index set to rationals and numpy's    *)
(* elementwise operators are lifted pointwise.                             *)
(***************************************************************************)
EXTENDS Integers, Sequences, FiniteSets, TLC

VARIABLES
    op,        \* name of the operation that ran last ("init" before any)
    frames,    \* input_dict of the combiner: frame key -> ndarray
    stokes,    \* what the combiner returned
    table,     \* observation table of the matcher: sequence of rows
    anchor,    \* index of the anchor row in the table
    matched,   \* what get_triplediff_set / get_doublediff_set returned
    filenames, \* input of polarization_calibration_*: sequence of files
    opened,    \* indices of the input files that fits.open was called on
    cal,       \* what polarization_calibration_* returned or raised
    mmIn,      \* one field of make_stokes_image before the Mueller correction
    mmOut,     \* the same field after the Mueller correction
    ipIn,      \* arguments of an instpol_correct / polarization_ip_correct call
    ipOut,     \* what that call returned or raised
    msiIn,     \* arguments of a make_stokes_image / polarization_calibration call
    outfile,   \* the file at outpath: None when absent, else its record
    msiOut,    \* what that call returned or raised
    prodIn,    \* Stokes frame, error frame and angles handed to the synthesizer
    prodOut,   \* what the synthesizer returned
    workers,   \* concurrent make_stokes_image calls: arguments, position, locals
    outpaths,  \* the file at the outpath of each of those calls
    depIn,     \* two argument records of make_stokes_image that agree at a pixel
    depOut,    \* what the two calls wrote
    legIn,     \* frames handed to the legacy calibration of polarization.py
    legOut,    \* what the legacy calibration returned or raised
    anIn,      \* arguments of analyze_file and the files it finds
    anOut,     \* what analyze_file returned
    cfgIn,     \* a configuration dict and its version
    cfgOut     \* the configuration after the upgrade

vars == <<op, frames, stokes, table, anchor, matched, filenames, opened, cal,
          mmIn, mmOut, ipIn, ipOut, msiIn, outfile, msiOut, prodIn, prodOut,
          workers, outpaths, depIn, depOut, legIn, legOut, anIn, anOut,
          cfgIn, cfgOut>>

None == "none"

(***************************************************************************)
(* Bounds of the model.                                                    *)
(***************************************************************************)
NPix == 2          \* pixels of one image
MaxPerturb == 1    \* frames of a set that differ from the base value
MaxExtra == 1      \* table rows beyond one row per key
MaxMJD == 2        \* timestamps are 0..MaxMJD
MaxFiles == 33     \* longest file list handed to a calibration
MaxVal == 2        \* Stokes values and Mueller coefficients are -MaxVal..MaxVal

Pixels == 1..NPix

(***************************************************************************)
(* Exact rational arithmetic (float64 arithmetic of numpy, without          *)
(* rounding).                                                              *)
(***************************************************************************)
Abs(n) == IF n < 0 THEN -n ELSE n

RECURSIVE GCD(_, _)
GCD(a, b) == IF b = 0 THEN a ELSE GCD(b, a % b)

Rat(n, d) ==
    LET s == IF d < 0 THEN -1 ELSE 1
        g == GCD(Abs(n), Abs(d))
    IN  <<(s * n) \div g, (s * d) \div g>>

R(n) == <<n, 1>>
\* operands are in lowest terms; common factors are divided out before the
\* products are formed, so that intermediate integers stay small
RAdd(a, b) ==
    LET g == GCD(a[2], b[2])
    IN  Rat(a[1] * (b[2] \div g) + b[1] * (a[2] \div g), (a[2] \div g) * b[2])
RSub(a, b) == RAdd(a, <<0 - b[1], b[2]>>)
RMul(a, b) ==
    LET g == GCD(Abs(a[1]), b[2])
        h == GCD(Abs(b[1]), a[2])
    IN  IF a[1] = 0 \/ b[1] = 0 THEN <<0, 1>>
        ELSE <<(a[1] \div g) * (b[1] \div h), (a[2] \div h) * (b[2] \div g)>>
RDiv(a, b) ==
    RMul(a, IF b[1] < 0 THEN <<0 - b[2], 0 - b[1]>> ELSE <<b[2], b[1]>>)
Zero == R(0)
One == R(1)
Two == R(2)
HalfC == Rat(1, 2)

\* numpy elementwise operators on arrays of one shape
AAdd(a, b) == [i \in DOMAIN a |-> RAdd(a[i], b[i])]
ASub(a, b) == [i \in DOMAIN a |-> RSub(a[i], b[i])]
AScale(c, a) == [i \in DOMAIN a |-> RMul(c, a[i])]

(***************************************************************************)
(* Keyspaces.  HWP angles are kept in tenths of a degree, so that 22.5 and *)
(* 67.5 are the integers 225 and 675.                                      *)
(***************************************************************************)
Ang0 == 0
Ang45 == 450
Ang22 == 225
Ang67 == 675
Angles == {Ang0, Ang45, Ang22, Ang67}
FLCs == {"A", "B"}
Cameras == {1, 2}

DOUBLEDIFF_SETS == Angles \X Cameras
TRIPLEDIFF_SETS == Angles \X FLCs \X Cameras

(***************************************************************************)
(* The differential combiner.                                              *)
(***************************************************************************)
\* 0.5 * (x - y) and 0.5 * (x + y)
HalfDiff(x, y) == AScale(HalfC, ASub(x, y))
HalfSum(x, y) == AScale(HalfC, AAdd(x, y))

triple_diff_dict_swapped(input_dict) ==
    LET F(a, s, c) == input_dict[<<a, s, c>>]
        pQ0 == HalfDiff(F(Ang0, "A", 1), F(Ang0, "A", 2))
        pIQ0 == HalfSum(F(Ang0, "A", 1), F(Ang0, "A", 2))
        pQ1 == HalfDiff(F(Ang0, "B", 1), F(Ang0, "B", 2))
        pIQ1 == HalfSum(F(Ang0, "B", 1), F(Ang0, "B", 2))
        mQ0 == HalfDiff(F(Ang45, "A", 1), F(Ang45, "A", 2))
        mIQ0 == HalfSum(F(Ang45, "A", 1), F(Ang45, "A", 2))
        mQ1 == HalfDiff(F(Ang45, "B", 1), F(Ang45, "B", 2))
        mIQ1 == HalfSum(F(Ang45, "B", 1), F(Ang45, "B", 2))
        pU0 == HalfDiff(F(Ang22, "A", 1), F(Ang22, "A", 2))
        pIU0 == HalfSum(F(Ang22, "A", 1), F(Ang22, "A", 2))
        pU1 == HalfDiff(F(Ang22, "B", 1), F(Ang22, "B", 2))
        pIU1 == HalfSum(F(Ang22, "B", 1), F(Ang22, "B", 2))
        mU0 == HalfDiff(F(Ang67, "A", 1), F(Ang67, "A", 2))
        mIU0 == HalfSum(F(Ang67, "A", 1), F(Ang67, "A", 2))
        mU1 == HalfDiff(F(Ang67, "B", 1), F(Ang67, "B", 2))
        mIU1 == HalfSum(F(Ang67, "B", 1), F(Ang67, "B", 2))
        \* the FLC difference taken with the wrong sign
        pQ == HalfSum(pQ0, pQ1)
        pIQ == HalfSum(pIQ0, pIQ1)
        mQ == HalfDiff(mQ0, mQ1)
        mIQ == HalfSum(mIQ0, mIQ1)
        pU == HalfDiff(pU0, pU1)
        pIU == HalfSum(pIU0, pIU1)
        mU == HalfDiff(mU0, mU1)
        mIU == HalfSum(mIU0, mIU1)
        Q == HalfDiff(pQ, mQ)
        IQ == HalfSum(pIQ, mIQ)
        U == HalfDiff(pU, mU)
        IU == HalfSum(pIU, mIU)
        I == HalfSum(IQ, IU)
    IN  <<I, Q, U>>

triple_diff_dict(input_dict) ==
    LET F(a, s, c) == input_dict[<<a, s, c>>]
        \* single diff (cams)
        pQ0 == HalfDiff(F(Ang0, "A", 1), F(Ang0, "A", 2))
        pIQ0 == HalfSum(F(Ang0, "A", 1), F(Ang0, "A", 2))
        pQ1 == HalfDiff(F(Ang0, "B", 1), F(Ang0, "B", 2))
        pIQ1 == HalfSum(F(Ang0, "B", 1), F(Ang0, "B", 2))
        mQ0 == HalfDiff(F(Ang45, "A", 1), F(Ang45, "A", 2))
        mIQ0 == HalfSum(F(Ang45, "A", 1), F(Ang45, "A", 2))
        mQ1 == HalfDiff(F(Ang45, "B", 1), F(Ang45, "B", 2))
        mIQ1 == HalfSum(F(Ang45, "B", 1), F(Ang45, "B", 2))
        pU0 == HalfDiff(F(Ang22, "A", 1), F(Ang22, "A", 2))
        pIU0 == HalfSum(F(Ang22, "A", 1), F(Ang22, "A", 2))
        pU1 == HalfDiff(F(Ang22, "B", 1), F(Ang22, "B", 2))
        pIU1 == HalfSum(F(Ang22, "B", 1), F(Ang22, "B", 2))
        mU0 == HalfDiff(F(Ang67, "A", 1), F(Ang67, "A", 2))
        mIU0 == HalfSum(F(Ang67, "A", 1), F(Ang67, "A", 2))
        mU1 == HalfDiff(F(Ang67, "B", 1), F(Ang67, "B", 2))
        mIU1 == HalfSum(F(Ang67, "B", 1), F(Ang67, "B", 2))
        \* double difference (FLC1 - FLC2)
        pQ == HalfDiff(pQ0, pQ1)
        pIQ == HalfSum(pIQ0, pIQ1)
        mQ == HalfDiff(mQ0, mQ1)
        mIQ == HalfSum(mIQ0, mIQ1)
        pU == HalfDiff(pU0, pU1)
        pIU == HalfSum(pIU0, pIU1)
        mU == HalfDiff(mU0, mU1)
        mIU == HalfSum(mIU0, mIU1)
        \* triple difference (HWP1 - HWP2)
        Q == HalfDiff(pQ, mQ)
        IQ == HalfSum(pIQ, mIQ)
        U == HalfDiff(pU, mU)
        IU == HalfSum(pIU, mIU)
        I == HalfSum(IQ, IU)
    IN  <<I, Q, U>>

\* the camera difference of the 45 degree pair taken as a sum
double_diff_dict_summed(input_dict) ==
    LET F(a, c) == input_dict[<<a, c>>]
        pQ == HalfDiff(F(Ang0, 1), F(Ang0, 2))
        pIQ == HalfSum(F(Ang0, 1), F(Ang0, 2))
        mQ == HalfSum(F(Ang45, 1), F(Ang45, 2))
        mIQ == HalfSum(F(Ang45, 1), F(Ang45, 2))
        pU == HalfDiff(F(Ang22, 1), F(Ang22, 2))
        pIU == HalfSum(F(Ang22, 1), F(Ang22, 2))
        mU == HalfDiff(F(Ang67, 1), F(Ang67, 2))
        mIU == HalfSum(F(Ang67, 1), F(Ang67, 2))
        Q == HalfDiff(pQ, mQ)
        IQ == HalfSum(pIQ, mIQ)
        U == HalfDiff(pU, mU)
        IU == HalfSum(pIU, mIU)
        I == HalfSum(IQ, IU)
    IN  <<I, Q, U>>

double_diff_dict(input_dict) ==
    LET F(a, c) == input_dict[<<a, c>>]
        pQ == HalfDiff(F(Ang0, 1), F(Ang0, 2))
        pIQ == HalfSum(F(Ang0, 1), F(Ang0, 2))
        mQ == HalfDiff(F(Ang45, 1), F(Ang45, 2))
        mIQ == HalfSum(F(Ang45, 1), F(Ang45, 2))
        pU == HalfDiff(F(Ang22, 1), F(Ang22, 2))
        pIU == HalfSum(F(Ang22, 1), F(Ang22, 2))
        mU == HalfDiff(F(Ang67, 1), F(Ang67, 2))
        mIU == HalfSum(F(Ang67, 1), F(Ang67, 2))
        Q == HalfDiff(pQ, mQ)
        IQ == HalfSum(pIQ, mIQ)
        U == HalfDiff(pU, mU)
        IU == HalfSum(pIU, mIU)
        I == HalfSum(IQ, IU)
    IN  <<I, Q, U>>

\* a call of the combiner: the result, or the KeyError of a missing key
TripleDiffCall(input_dict) ==
    IF TRIPLEDIFF_SETS \subseteq DOMAIN input_dict
    THEN LET r == triple_diff_dict(input_dict)
         IN  [status |-> "ok", I |-> r[1], Q |-> r[2], U |-> r[3]]
    ELSE [status |-> "KeyError"]

DoubleDiffCall(input_dict) ==
    IF DOUBLEDIFF_SETS \subseteq DOMAIN input_dict
    THEN LET r == double_diff_dict(input_dict)
         IN  [status |-> "ok", I |-> r[1], Q |-> r[2], U |-> r[3]]
    ELSE [status |-> "KeyError"]

(***************************************************************************)
(* Inputs of the combiner: every frame is one of BaseVals everywhere       *)
(* except at up to MaxPerturb (key, pixel) sites, which hold one of        *)
(* PerturbVals; or one key is missing from an unperturbed set.             *)
(***************************************************************************)
BaseVals == {0, 1}
PerturbVals == {2, -1}

RECURSIVE SubsetsUpTo(_, _)
SubsetsUpTo(S, n) ==
    IF n = 0 THEN {{}}
    ELSE LET P == SubsetsUpTo(S, n - 1)
         IN  P \cup {T \cup {x} : T \in P, x \in S}

FrameSet(keys, b, S, v) ==
    [k \in keys |-> [p \in Pixels |-> IF <<k, p>> \in S THEN R(v) ELSE R(b)]]

FrameSets(keyspace) ==
    {FrameSet(keyspace, b, S, v) :
        b \in BaseVals,
        S \in SubsetsUpTo(keyspace \X Pixels, MaxPerturb),
        v \in PerturbVals}
    \cup {FrameSet(keyspace \ {k}, b, {}, b) : k \in keyspace, b \in BaseVals}

IdleComb == frames = None /\ stokes = None
IdleMatch == table = <<>> /\ anchor = 0 /\ matched = None
IdleCal == filenames = <<>> /\ opened = {} /\ cal = None
IdleMM == mmIn = None /\ mmOut = None
IdleIP == ipIn = None /\ ipOut = None
IdleMSI == msiIn = None /\ outfile = None /\ msiOut = None
IdleProd == prodIn = None /\ prodOut = None
IdlePar == workers = None /\ outpaths = None
IdleDep == depIn = None /\ depOut = None
IdleLeg == legIn = None /\ legOut = None
IdleAn == anIn = None /\ anOut = None
IdleCfg == cfgIn = None /\ cfgOut = None
IdleNew == IdlePar /\ IdleDep /\ IdleLeg /\ IdleAn /\ IdleCfg

InitComb ==
    /\ op = "init"
    /\ frames \in FrameSets(TRIPLEDIFF_SETS) \cup FrameSets(DOUBLEDIFF_SETS)
    /\ stokes = None
    /\ IdleMatch /\ IdleCal /\ IdleMM /\ IdleIP /\ IdleMSI /\ IdleProd
    /\ IdleNew

TripleDiff ==
    /\ op = "init"
    /\ DOMAIN frames \subseteq TRIPLEDIFF_SETS
    /\ op' = "triple_diff_dict"
    /\ stokes' = TripleDiffCall(frames)
    /\ UNCHANGED <<frames, table, anchor, matched, filenames, opened, cal,
                   mmIn, mmOut,
                   ipIn, ipOut, msiIn, outfile, msiOut, prodIn, prodOut,
                   workers, outpaths, depIn, depOut, legIn, legOut, anIn,
                   anOut, cfgIn, cfgOut>>

DoubleDiff ==
    /\ op = "init"
    /\ DOMAIN frames \subseteq DOUBLEDIFF_SETS
    /\ op' = "double_diff_dict"
    /\ stokes' = DoubleDiffCall(frames)
    /\ UNCHANGED <<frames, table, anchor, matched, filenames, opened, cal,
                   mmIn, mmOut,
                   ipIn, ipOut, msiIn, outfile, msiOut, prodIn, prodOut,
                   workers, outpaths, depIn, depOut, legIn, legOut, anIn,
                   anOut, cfgIn, cfgOut>>

NextComb == TripleDiff \/ DoubleDiff

SpecComb == InitComb /\ [][NextComb]_vars

(***************************************************************************)
(* C1: for every complete 16-key set F, triple_diff_dict returns I, Q, U   *)
(* equal to the nested-averaging formula                                   *)
(*   pQ(a) = 1/2(F[a,A,1] - F[a,A,2]),  mQ(a) = 1/2(F[a,B,1] - F[a,B,2]),  *)
(*   Q = 1/2(1/2(pQ(0) - mQ(0)) - 1/2(pQ(45) - mQ(45))),                   *)
(* U the same over 22.5 and 67.5, I = 1/2(IQ + IU) with sums; and raising  *)
(* only F[0,A,1] from 1 to 2 in an all-ones set gives Q = 1/8 and U = 0.   *)
(***************************************************************************)
C1_h(x) == RMul(Rat(1, 2), x)
C1_p(F, a, p) == C1_h(RSub(F[<<a, "A", 1>>][p], F[<<a, "A", 2>>][p]))
C1_m(F, a, p) == C1_h(RSub(F[<<a, "B", 1>>][p], F[<<a, "B", 2>>][p]))
C1_pI(F, a, p) == C1_h(RAdd(F[<<a, "A", 1>>][p], F[<<a, "A", 2>>][p]))
C1_mI(F, a, p) == C1_h(RAdd(F[<<a, "B", 1>>][p], F[<<a, "B", 2>>][p]))
C1_D(F, a, b, p) ==
    C1_h(RSub(C1_h(RSub(C1_p(F, a, p), C1_m(F, a, p))),
              C1_h(RSub(C1_p(F, b, p), C1_m(F, b, p)))))
C1_S(F, a, b, p) ==
    C1_h(RAdd(C1_h(RAdd(C1_pI(F, a, p), C1_mI(F, a, p))),
              C1_h(RAdd(C1_pI(F, b, p), C1_mI(F, b, p)))))
C1_OnesBut0A1 ==
    \E p \in Pixels :
        frames = FrameSet(TRIPLEDIFF_SETS, 1, {<<(<<Ang0, "A", 1>>), p>>}, 2)

C1_TripleDiffFormula ==
    (op = "triple_diff_dict" /\ DOMAIN frames = TRIPLEDIFF_SETS) =>
        /\ stokes.status = "ok"
        /\ \A p \in Pixels :
            /\ stokes.Q[p] = C1_D(frames, Ang0, Ang45, p)
            /\ stokes.U[p] = C1_D(frames, Ang22, Ang67, p)
            /\ stokes.I[p] = C1_h(RAdd(C1_S(frames, Ang0, Ang45, p),
                                       C1_S(frames, Ang22, Ang67, p)))
        /\ C1_OnesBut0A1 =>
            \A p \in Pixels :
                /\ stokes.Q[p] = (IF frames[<<Ang0, "A", 1>>][p] = R(2)
                                  THEN Rat(1, 8) ELSE Zero)
                /\ stokes.U[p] = Zero

C1_Witness ==
    /\ op = "triple_diff_dict"
    /\ C1_OnesBut0A1
    /\ stokes.status = "ok"
    /\ \E p \in Pixels : stokes.Q[p] = Rat(1, 8)

(***************************************************************************)
(* C2: when all 16 frames equal 1.0 at every pixel the combiner returns    *)
(* I = 2.0, Q = 0.0 and U = 0.0 at every pixel.                            *)
(***************************************************************************)
C2_AllOnes == frames = FrameSet(TRIPLEDIFF_SETS, 1, {}, 2)

C2_UnitFramesGiveITwo ==
    (op = "triple_diff_dict" /\ C2_AllOnes) =>
        /\ stokes.status = "ok"
        /\ \A p \in Pixels :
            stokes.I[p] = Two /\ stokes.Q[p] = Zero /\ stokes.U[p] = Zero

(***************************************************************************)
(* C17: for every complete 8-key set F, double_diff_dict combines across   *)
(* the camera pair and then across the angle pair, with no modulator-state *)
(* axis: Q = 1/2(1/2(F[0,1] - F[0,2]) - 1/2(F[45,1] - F[45,2])),           *)
(* U = 1/2(1/2(F[22.5,1] - F[22.5,2]) - 1/2(F[67.5,1] - F[67.5,2])),       *)
(* I = 1/2(IQ + IU) with IQ, IU the same constructions with sums; the      *)
(* result is (I, Q, U) in that order.                                      *)
(***************************************************************************)
C17_d(F, a, p) == C1_h(RSub(F[<<a, 1>>][p], F[<<a, 2>>][p]))
C17_s(F, a, p) == C1_h(RAdd(F[<<a, 1>>][p], F[<<a, 2>>][p]))

C17_DoubleDiffFormula ==
    (op = "double_diff_dict" /\ DOMAIN frames = DOUBLEDIFF_SETS) =>
        /\ stokes.status = "ok"
        /\ \A p \in Pixels :
            LET r == double_diff_dict(frames)
                IQ == C1_h(RAdd(C17_s(frames, Ang0, p), C17_s(frames, Ang45, p)))
                IU == C1_h(RAdd(C17_s(frames, Ang22, p), C17_s(frames, Ang67, p)))
            IN  /\ stokes.Q[p] = C1_h(RSub(C17_d(frames, Ang0, p),
                                           C17_d(frames, Ang45, p)))
                /\ stokes.U[p] = C1_h(RSub(C17_d(frames, Ang22, p),
                                           C17_d(frames, Ang67, p)))
                /\ stokes.I[p] = C1_h(RAdd(IQ, IU))
                \* the order of the returned tuple
                /\ r[1] = stokes.I /\ r[2] = stokes.Q /\ r[3] = stokes.U

C17_Witness ==
    /\ op = "double_diff_dict"
    /\ DOMAIN frames = DOUBLEDIFF_SETS
    /\ stokes.status = "ok"
    /\ \E p \in Pixels :
          /\ frames[<<Ang45, 2>>][p] # frames[<<Ang45, 1>>][p]
          /\ stokes.Q[p] # Zero
          /\ stokes.I[p] # stokes.Q[p]

(***************************************************************************)
(* The frame-set matcher.  A table row is a record of the header fields    *)
(* RET-ANG1 (ang), U_FLC (flc), U_CAMERA (cam), MJD (mjd) and its path.    *)
(***************************************************************************)
Min(a, b) == IF a < b THEN a ELSE b

\* set(row_key): the set of the ELEMENTS of the key tuple.  Members of a
\* Python set are told apart by type, so each is tagged with its type.
PySetOfTuple(t) == {<<"scalar", t[i]>> : i \in DOMAIN t}

\* DOUBLEDIFF_SETS - set(row_key), TRIPLEDIFF_SETS - set(row_key)
RemainingKeys(keyspace, row_key) ==
    {k \in keyspace : <<"tuple", k>> \notin PySetOfTuple(row_key)}

\* np.abs(row_time - time_arr)
DeltaTime(tbl, row) == [i \in DOMAIN tbl |-> Abs(row.mjd - tbl[i].mjd)]

TripleKey(row) == <<row.ang, row.flc, row.cam>>
DoubleKey(row) == <<row.ang, row.cam>>

\* indices of the rows the boolean mask of `key` keeps, in table order
MaskTripleAnyCam(tbl, key) ==
    {i \in DOMAIN tbl : tbl[i].ang = key[1] /\ tbl[i].flc = key[2]}
MaskTriple(tbl, key) == {i \in DOMAIN tbl : TripleKey(tbl[i]) = key}
MaskDouble(tbl, key) == {i \in DOMAIN tbl : DoubleKey(tbl[i]) = key}

\* deltatime[mask].argmin() followed by table.loc[mask, "path"].iloc[idx]:
\* the first row of the mask at the least delta
ArgMinLast(mask, delta) ==
    CHOOSE i \in mask :
        \A j \in mask : delta[i] < delta[j] \/ (delta[i] = delta[j] /\ i >= j)
ArgMin(mask, delta) ==
    CHOOSE i \in mask :
        \A j \in mask : delta[i] < delta[j] \/ (delta[i] = delta[j] /\ i <= j)

\* the body shared by get_triplediff_set and get_doublediff_set; masks[key]
\* is the boolean mask the method computes for `key`
MatchSetPartial(tbl, row, keyspace, row_key, masks) ==
    LET delta == DeltaTime(tbl, row)
        remaining_keys == {k \in RemainingKeys(keyspace, row_key) : masks[k] # {}}
    IN  [status |-> "ok",
         set |-> [key \in {row_key} \cup remaining_keys |->
                    IF key \in remaining_keys
                    THEN tbl[ArgMin(masks[key], delta)].path
                    ELSE row.path]]

MatchSet(tbl, row, keyspace, row_key, masks) ==
    LET delta == DeltaTime(tbl, row)
        remaining_keys == RemainingKeys(keyspace, row_key)
    IN  IF \E key \in remaining_keys : masks[key] = {}
        THEN [status |-> "ValueError"]   \* argmin of an empty sequence
        ELSE [status |-> "ok",
              \* output_set = {row_key: row["path"]}, then one store per key
              set |-> [key \in {row_key} \cup remaining_keys |->
                        IF key \in remaining_keys
                        THEN tbl[ArgMin(masks[key], delta)].path
                        ELSE row.path]]

get_triplediff_set(tbl, row) ==
    MatchSet(tbl, row, TRIPLEDIFF_SETS, TripleKey(row),
             [key \in TRIPLEDIFF_SETS |-> MaskTriple(tbl, key)])

get_doublediff_set(tbl, row) ==
    MatchSet(tbl, row, DOUBLEDIFF_SETS, DoubleKey(row),
             [key \in DOUBLEDIFF_SETS |-> MaskDouble(tbl, key)])

(***************************************************************************)
(* Tables handed to the matcher: one row per triple-diff key in HWP cycle  *)
(* order (the HWP steps once per timestamp), without the rows of the keys  *)
(* in `drop`, and up to MaxExtra further rows of one key, each at any      *)
(* timestamp and listed before or after the others.                        *)
(***************************************************************************)
AngleSeq == <<Ang0, Ang45, Ang22, Ang67>>
FLCSeq == <<"A", "B">>
NKeys == Cardinality(TRIPLEDIFF_SETS)

KeyAt(j) ==
    <<AngleSeq[((j - 1) \div 4) + 1], FLCSeq[(((j - 1) \div 2) % 2) + 1],
      ((j - 1) % 2) + 1>>

Row(key, mjd, path) ==
    [ang |-> key[1], flc |-> key[2], cam |-> key[3], mjd |-> mjd, path |-> path]

BaseRow(j) == Row(KeyAt(j), Min((j - 1) \div 4, MaxMJD), j)

RECURSIVE BaseRows(_, _)
BaseRows(j, drop) ==
    IF j > NKeys THEN <<>>
    ELSE (IF KeyAt(j) \in drop THEN <<>> ELSE <<BaseRow(j)>>)
            \o BaseRows(j + 1, drop)

OtherFLC(k) == <<k[1], IF k[2] = "A" THEN "B" ELSE "A", k[3]>>
OtherCam(k) == <<k[1], k[2], 3 - k[3]>>

\* the keys left without their row: none, the key of the extra rows, another
\* key, or both modulator states of one (angle, camera)
DropOptions(k) == {{}, {k}, {OtherCam(k)}, {k, OtherFLC(k)}}

RECURSIVE Tables(_, _, _)
Tables(n, k, drop) ==
    IF n = 0 THEN {BaseRows(1, drop)}
    ELSE LET T == Tables(n - 1, k, drop)
             E == {Row(k, t, NKeys + n) : t \in 0..MaxMJD}
         IN  T \cup {<<r>> \o t : r \in E, t \in T}
               \cup {t \o <<r>> : r \in E, t \in T}

InitMatch ==
    /\ op = "init"
    /\ \E k \in TRIPLEDIFF_SETS : \E drop \in DropOptions(k) :
          table \in Tables(MaxExtra, k, drop)
    /\ anchor \in DOMAIN table
    /\ matched = None
    /\ IdleComb /\ IdleCal /\ IdleMM /\ IdleIP /\ IdleMSI /\ IdleProd
    /\ IdleNew

GetTriplediffSet ==
    /\ op = "init"
    /\ op' = "get_triplediff_set"
    /\ matched' = get_triplediff_set(table, table[anchor])
    /\ UNCHANGED <<frames, stokes, table, anchor, filenames, opened, cal,
                   mmIn, mmOut,
                   ipIn, ipOut, msiIn, outfile, msiOut, prodIn, prodOut,
                   workers, outpaths, depIn, depOut, legIn, legOut, anIn,
                   anOut, cfgIn, cfgOut>>

GetDoublediffSet ==
    /\ op = "init"
    /\ op' = "get_doublediff_set"
    /\ matched' = get_doublediff_set(table, table[anchor])
    /\ UNCHANGED <<frames, stokes, table, anchor, filenames, opened, cal,
                   mmIn, mmOut,
                   ipIn, ipOut, msiIn, outfile, msiOut, prodIn, prodOut,
                   workers, outpaths, depIn, depOut, legIn, legOut, anIn,
                   anOut, cfgIn, cfgOut>>

NextMatch == GetTriplediffSet \/ GetDoublediffSet

SpecMatch == InitMatch /\ [][NextMatch]_vars

(***************************************************************************)
(* Error maps.  An error value is s * sqrt(q) with q a rational >= 0 and   *)
(* s its sign, kept as the pair <<s, q>>, so that np.sqrt and np.hypot     *)
(* stay exact.                                                             *)
(***************************************************************************)
Sign(n) == IF n > 0 THEN 1 ELSE IF n < 0 THEN -1 ELSE 0
SqrtR(q) == <<Sign(q[1]), q>>                  \* np.sqrt of a rational >= 0
Surd(n) == <<Sign(n), R(n * n)>>               \* the rational n as an error value
SScale(c, x) == <<Sign(c[1]) * x[1], RMul(RMul(c, c), x[2])>>   \* c * x
Hypot(x, y) == SqrtR(RAdd(x[2], y[2]))         \* np.hypot(x, y)
FullErr(n) == [p \in Pixels |-> Surd(n)]

(***************************************************************************)
(* The calibration entry points.  A file is a record of its header keys    *)
(* (ang, flc, cam, derotang), its data cube and its error cube; cubes have *)
(* one field and NPix pixels in one row.                                   *)
(***************************************************************************)
\* derotate_cube for the angles 0 and 180: a half turn reverses the row
derotate_cube(cube, angle) ==
    IF angle = 0 THEN cube ELSE [p \in Pixels |-> cube[NPix + 1 - p]]

\* len(filenames) % m != 0 is the failure
CountOKAtLeast(n, m) == n >= m
CountOK(n, m) == n % m = 0

MsgTriple ==
    <<"Cannot", "do", "triple-differential", "calibration", "without", "exact",
      "sets", "of", "16", "frames", "for", "each", "HWP", "cycle">>
MsgDouble ==
    <<"Cannot", "do", "double-differential", "calibration", "without", "exact",
      "sets", "of", "8", "frames", "for", "each", "HWP", "cycle">>

\* cube_dict after the loop over the files: a later file of a key replaces
\* an earlier one
LastOfKey(files, keyOf, key) ==
    CHOOSE i \in DOMAIN files :
        /\ keyOf[i] = key
        /\ \A j \in DOMAIN files : keyOf[j] = key => j <= i

CubeDict(files, keyOf) ==
    [key \in {keyOf[i] : i \in DOMAIN files} |->
        LET f == files[LastOfKey(files, keyOf, key)]
        IN  derotate_cube(f.data, f.derotang)]

\* sum over the files lo..hi of the squared (derotated) error at pixel p
RECURSIVE SumErrSq(_, _, _, _)
SumErrSq(files, p, lo, hi) ==
    IF lo > hi THEN Zero
    ELSE IF lo = hi
    THEN derotate_cube(files[lo].err, files[lo].derotang)[p][2]
    ELSE LET mid == (lo + hi) \div 2
         IN  RAdd(SumErrSq(files, p, lo, mid), SumErrSq(files, p, mid + 1, hi))

\* the RMS over the files, without the division by len(cube_errs)
StokesErrRMS(files) ==
    LET n == Len(files)
    IN  [p \in Pixels |-> SqrtR(RDiv(SumErrSq(files, p, 1, n), R(n)))]

\* np.sqrt(np.nanmean(np.power(cube_errs, 2), axis=0) / len(cube_errs))
StokesErr(files) ==
    LET n == Len(files)
    IN  [p \in Pixels |-> SqrtR(RDiv(RDiv(SumErrSq(files, p, 1, n), R(n)), R(n)))]

\* the headers of one key after the loop over the files: create_or_append
\* puts the primary header of every file under "PRIMARY" and the header of
\* its field under the name of the field, in the order of the files
HeadersOf(files, key) ==
    LET RECURSIVE Upto(_)
        Upto(n) ==
            IF n = 0 THEN <<>>
            ELSE LET f == files[n]
                     more == (IF key = "PRIMARY" THEN <<f.prim_hdr>> ELSE <<>>)
                             \o (IF f.field_hdr["FIELD"] = key
                                 THEN <<f.field_hdr>> ELSE <<>>)
                 IN  Upto(n - 1) \o more
    IN  Upto(Len(files))

\* sum of TINT over the headers lo..hi that have one
RECURSIVE SumTint(_, _, _)
SumTint(hdrs, lo, hi) ==
    IF lo > hi THEN Zero
    ELSE IF lo = hi
    THEN (IF "TINT" \in DOMAIN hdrs[lo] THEN hdrs[lo]["TINT"] ELSE Zero)
    ELSE LET mid == (lo + hi) \div 2
         IN  RAdd(SumTint(hdrs, lo, mid), SumTint(hdrs, mid + 1, hi))

\* the header merge of the image-processing module: a key that is the same
\* in every header is copied, and the integration times are summed
combine_frames_headers(hdrs) ==
    LET keys == UNION {DOMAIN hdrs[i] : i \in DOMAIN hdrs}
        First(k) == hdrs[CHOOSE i \in DOMAIN hdrs :
                            /\ k \in DOMAIN hdrs[i]
                            /\ \A j \in 1..(i - 1) : k \notin DOMAIN hdrs[j]][k]
    IN  [k \in keys |-> IF k = "TINT" THEN SumTint(hdrs, 1, Len(hdrs))
                        ELSE First(k)]

\* the merged headers with every TINT halved twice
StokesHdrsQuartered(files) ==
    [key \in {"PRIMARY"} \cup {files[i].field_hdr["FIELD"] : i \in DOMAIN files} |->
        LET stokes_hdr == combine_frames_headers(HeadersOf(files, key))
        IN  IF "TINT" \in DOMAIN stokes_hdr
            THEN [stokes_hdr EXCEPT !["TINT"] = RDiv(RDiv(@, Two), Two)]
            ELSE stokes_hdr]

\* stokes_hdrs: for each key the merged header (apply_wcs leaves TINT
\* alone), with the exposure time reduced by 2
StokesHdrs(files) ==
    [key \in {"PRIMARY"} \cup {files[i].field_hdr["FIELD"] : i \in DOMAIN files} |->
        LET stokes_hdr == combine_frames_headers(HeadersOf(files, key))
        IN  IF "TINT" \in DOMAIN stokes_hdr
            THEN [stokes_hdr EXCEPT !["TINT"] = RDiv(@, Two)]
            ELSE stokes_hdr]

PolCal(files, m, msg, keyOf, diff) ==
    IF ~CountOK(Len(files), m)
    THEN [status |-> "ValueError", msg |-> msg, opened |-> {}]
    ELSE IF diff.status # "ok"
    THEN [status |-> "KeyError", opened |-> DOMAIN files]
    ELSE [status |-> "ok", opened |-> DOMAIN files,
          I |-> diff.I, Q |-> diff.Q, U |-> diff.U, err |-> StokesErr(files),
          hdrs |-> StokesHdrs(files)]

polarization_calibration_triplediff(files) ==
    LET keyOf == [i \in DOMAIN files |-> TripleKey(files[i])]
    IN  PolCal(files, 16, MsgTriple, keyOf, TripleDiffCall(CubeDict(files, keyOf)))

polarization_calibration_doublediff(files) ==
    LET keyOf == [i \in DOMAIN files |-> DoubleKey(files[i])]
    IN  PolCal(files, 8, MsgDouble, keyOf, DoubleDiffCall(CubeDict(files, keyOf)))

(***************************************************************************)
(* File lists handed to a calibration: the first n files of an observing   *)
(* sequence that steps through the 16 keys cycle after cycle, either with  *)
(* the modulator switching within each HWP angle (KeyAt) or with the HWP   *)
(* stepping through its four angles within each modulator state            *)
(* (KeyAtHWPFast; its first 8 files fill the double-diff keyspace);        *)
(* optionally the second file repeats the key of the first.  Data and      *)
(* errors differ from file to file and from pixel to pixel.                *)
(***************************************************************************)
KeyAtHWPFast(j) ==
    <<AngleSeq[(((j - 1) \div 2) % 4) + 1], FLCSeq[(((j - 1) \div 8) % 2) + 1],
      ((j - 1) % 2) + 1>>

\* which headers of the files carry an integration time: none, the primary
\* headers, every header, or every header of the odd files
TintKinds == {"none", "primary", "all", "odd"}

Header(base, i, has) ==
    IF has THEN [k \in DOMAIN base \cup {"TINT"} |->
                    IF k = "TINT" THEN R(1 + (i % 2)) ELSE base[k]]
    ELSE base

File(i, b, derot, dup, hwpfast, tint) ==
    LET j == IF dup /\ i = 2 THEN 1 ELSE ((i - 1) % NKeys) + 1
        key == IF hwpfast THEN KeyAtHWPFast(j) ELSE KeyAt(j)
    IN  [ang |-> key[1], flc |-> key[2], cam |-> key[3], derotang |-> derot,
         data |-> [p \in Pixels |-> R(b + ((i * i + p) % 5))],
         err |-> [p \in Pixels |-> Surd(1 + ((i + p) % 3))],
         prim_hdr |-> Header([DEROTANG |-> derot], i,
                             tint \in {"primary", "all"} \/ (tint = "odd" /\ i % 2 = 1)),
         field_hdr |-> Header([FIELD |-> "F1"], i,
                              tint = "all" \/ (tint = "odd" /\ i % 2 = 1))]

InitCal ==
    /\ op = "init"
    /\ \E n \in 0..MaxFiles, b \in BaseVals, derot \in {0, 180},
          dup \in BOOLEAN, hwpfast \in BOOLEAN, tint \in TintKinds :
          filenames = [i \in 1..n |-> File(i, b, derot, dup, hwpfast, tint)]
    /\ opened = {}
    /\ cal = None
    /\ IdleComb /\ IdleMatch /\ IdleMM /\ IdleIP /\ IdleMSI /\ IdleProd
    /\ IdleNew

CalTriplediff ==
    /\ op = "init"
    /\ op' = "polarization_calibration_triplediff"
    /\ LET r == polarization_calibration_triplediff(filenames)
       IN  cal' = r /\ opened' = r.opened
    /\ UNCHANGED <<frames, stokes, table, anchor, matched, filenames, mmIn, mmOut,
                   ipIn, ipOut, msiIn, outfile, msiOut, prodIn, prodOut,
                   workers, outpaths, depIn, depOut, legIn, legOut, anIn,
                   anOut, cfgIn, cfgOut>>

CalDoublediff ==
    /\ op = "init"
    /\ op' = "polarization_calibration_doublediff"
    /\ LET r == polarization_calibration_doublediff(filenames)
       IN  cal' = r /\ opened' = r.opened
    /\ UNCHANGED <<frames, stokes, table, anchor, matched, filenames, mmIn, mmOut,
                   ipIn, ipOut, msiIn, outfile, msiOut, prodIn, prodOut,
                   workers, outpaths, depIn, depOut, legIn, legOut, anIn,
                   anOut, cfgIn, cfgOut>>

NextCal == CalTriplediff \/ CalDoublediff

SpecCal == InitCal /\ [][NextCal]_vars

(***************************************************************************)
(* The Mueller-matrix correction of make_stokes_image (mm_correct), for    *)
(* one field: I, Q, U are the planes of the field, I_err its error map,    *)
(* mmQ and mmU the first rows of the differenced Mueller matrices.         *)
(* Py(v, i) is the Python subscript v[i] of a vector kept as a sequence.   *)
(***************************************************************************)
Py(v, i) == v[i + 1]

\* X -= m * I
IPRemoveAdded(X, I, m) == AAdd(X, AScale(m, I))
IPRemove(X, I, m) == ASub(X, AScale(m, I))

\* the error of the first pixel used for every pixel
IPErrorOfFirst(I_err, m) == [p \in DOMAIN I_err |-> Hypot(I_err[1], SScale(m, I_err[1]))]

\* np.hypot(I_err, m * I_err)
IPError(I_err, m) == [p \in DOMAIN I_err |-> Hypot(I_err[p], SScale(m, I_err[p]))]

\* Marr = np.array((mmQ[1:3], mmU[1:3])), as a tuple of rows
MarrOffByOne(mmQ, mmU) == <<<<Py(mmQ, 0), Py(mmQ, 1)>>, <<Py(mmU, 0), Py(mmU, 1)>>>>
Marr(mmQ, mmU) == <<<<Py(mmQ, 1), Py(mmQ, 2)>>, <<Py(mmU, 1), Py(mmU, 2)>>>>

\* Marr.T
Transpose(A) == <<<<A[1][1], A[2][1]>>, <<A[1][2], A[2][2]>>>>

Det(A) == RSub(RMul(A[1][1], A[2][2]), RMul(A[1][2], A[2][1]))

\* np.linalg.lstsq(A, b, rcond=None)[0] for a 2x2 A and one column b: the
\* solution of A x = b when A is invertible, else the least-squares solution
\* of least norm, pinv(A) b, where pinv(A) = A^T / |A|_F^2 for rank 1 and 0
\* for A = 0
Lstsq(A, b) ==
    LET det == Det(A)
        n == RAdd(RAdd(RMul(A[1][1], A[1][1]), RMul(A[1][2], A[1][2])),
                  RAdd(RMul(A[2][1], A[2][1]), RMul(A[2][2], A[2][2])))
    IN  IF det # Zero
        THEN <<RDiv(RSub(RMul(A[2][2], b[1]), RMul(A[1][2], b[2])), det),
               RDiv(RSub(RMul(A[1][1], b[2]), RMul(A[2][1], b[1])), det)>>
        ELSE IF n = Zero THEN <<Zero, Zero>>
        ELSE <<RDiv(RAdd(RMul(A[1][1], b[1]), RMul(A[2][1], b[2])), n),
               RDiv(RAdd(RMul(A[1][2], b[1]), RMul(A[2][2], b[2])), n)>>

\* the `if mm_correct:` block; Qip and Uip keep the values of Q and U between
\* the IP removal and the cross-talk solve
MMCorrect(f, mmQ, mmU) ==
    LET Qip == IPRemove(f.Q, f.I, Py(mmQ, 0))
        Uip == IPRemove(f.U, f.I, Py(mmU, 0))
        Q_err == IPError(f.I_err, Py(mmQ, 0))
        U_err == IPError(f.I_err, Py(mmU, 0))
        A == Transpose(Marr(mmQ, mmU))
        res == [p \in Pixels |-> Lstsq(A, <<Qip[p], Uip[p]>>)]
    IN  [I |-> f.I,
         Q |-> [p \in Pixels |-> res[p][1]],
         U |-> [p \in Pixels |-> res[p][2]],
         Qip |-> Qip, Uip |-> Uip,
         I_err |-> f.I_err, Q_err |-> Q_err, U_err |-> U_err]

(***************************************************************************)
(* Inputs of the correction: the first pixel of the field takes a Stokes   *)
(* vector of StokesVals and each further pixel the next one in turn; the   *)
(* cross-talk coefficients are the integers -MaxVal..MaxVal and the IP     *)
(* coefficients (mmQ[0], mmU[0]) a pair of IPCoefs.                        *)
(***************************************************************************)
StokesVals == <<<<1, 0, 0>>, <<0, 1, 0>>, <<0, 0, 1>>, <<1, 2, -1>>, <<0, 0, 0>>>>
Coefs == {R(c) : c \in (0 - MaxVal)..MaxVal}
IPCoefs == {<<R(0), R(0)>>, <<R(1), Rat(-1, 2)>>, <<Rat(-1, 2), R(1)>>, <<R(1), R(1)>>}

Field(v, e) ==
    LET S(p) == StokesVals[((v + p - 2) % Len(StokesVals)) + 1]
    IN  [I |-> [p \in Pixels |-> R(S(p)[1])],
         Q |-> [p \in Pixels |-> R(S(p)[2])],
         U |-> [p \in Pixels |-> R(S(p)[3])],
         I_err |-> FullErr(e)]

InitMM ==
    /\ op = "init"
    /\ \E v \in DOMAIN StokesVals, ip \in IPCoefs,
          q1 \in Coefs, q2 \in Coefs, u1 \in Coefs, u2 \in Coefs :
          mmIn = [f |-> Field(v, 1 + (v % 2)), mmQ |-> <<ip[1], q1, q2, Zero>>,
                  mmU |-> <<ip[2], u1, u2, Zero>>]
    /\ mmOut = None
    /\ IdleComb /\ IdleMatch /\ IdleCal /\ IdleIP /\ IdleMSI /\ IdleProd
    /\ IdleNew

MuellerCorrect ==
    /\ op = "init"
    /\ op' = "mm_correct"
    /\ mmOut' = MMCorrect(mmIn.f, mmIn.mmQ, mmIn.mmU)
    /\ UNCHANGED <<frames, stokes, table, anchor, matched, filenames, opened,
                   cal, mmIn,
                   ipIn, ipOut, msiIn, outfile, msiOut, prodIn, prodOut,
                   workers, outpaths, depIn, depOut, legIn, legOut, anIn,
                   anOut, cfgIn, cfgOut>>

\* the correction applied to its own result, with the same Mueller rows
MuellerCorrectAgain ==
    /\ op = "mm_correct"
    /\ op' = "mm_correct_again"
    /\ mmOut' = MMCorrect([I |-> mmOut.I, Q |-> mmOut.Q, U |-> mmOut.U,
                           I_err |-> mmOut.I_err], mmIn.mmQ, mmIn.mmU)
    /\ UNCHANGED <<frames, stokes, table, anchor, matched, filenames, opened,
                   cal, mmIn,
                   ipIn, ipOut, msiIn, outfile, msiOut, prodIn, prodOut,
                   workers, outpaths, depIn, depOut, legIn, legOut, anIn,
                   anOut, cfgIn, cfgOut>>

NextMM == MuellerCorrect \/ MuellerCorrectAgain

SpecMM == InitMM /\ [][NextMM]_vars

(***************************************************************************)
(* Non-finite floats.  A division by zero gives NaN (<<0, 0>>) or a signed *)
(* infinity (<<1, 0>>, <<-1, 0>>), and arithmetic carries them on as IEEE  *)
(* 754 does; on finite operands the operators are the exact ones above.    *)
(***************************************************************************)
NaN == <<0, 0>>
Inf(sgn) == <<sgn, 0>>
IsFinite(x) == x[2] # 0
IsNaN(x) == x = NaN

FNeg(a) == <<0 - a[1], a[2]>>
FAdd(a, b) ==
    IF IsNaN(a) \/ IsNaN(b) THEN NaN
    ELSE IF IsFinite(a) /\ IsFinite(b) THEN RAdd(a, b)
    ELSE IF IsFinite(b) THEN a
    ELSE IF IsFinite(a) THEN b
    ELSE IF a = b THEN a ELSE NaN
FSub(a, b) == FAdd(a, FNeg(b))
FMul(a, b) ==
    IF IsNaN(a) \/ IsNaN(b) THEN NaN
    ELSE IF IsFinite(a) /\ IsFinite(b) THEN RMul(a, b)
    ELSE IF a = Zero \/ b = Zero THEN NaN
    ELSE Inf(Sign(a[1]) * Sign(b[1]))
FDiv(a, b) ==
    IF IsNaN(a) \/ IsNaN(b) THEN NaN
    ELSE IF IsFinite(a) /\ IsFinite(b)
    THEN (IF b # Zero THEN RDiv(a, b)
          ELSE IF a = Zero THEN NaN ELSE Inf(Sign(a[1])))
    ELSE IF IsFinite(b) THEN Inf(Sign(a[1]) * (IF b[1] < 0 THEN -1 ELSE 1))
    ELSE IF IsFinite(a) THEN Zero
    ELSE NaN

\* error values s * sqrt(q) with q a float
FScale(c, x) == <<Sign(c[1]) * x[1], FMul(FMul(c, c), x[2])>>
FHypot(x, y) ==
    LET q == IF Inf(1) \in {x[2], y[2]} THEN Inf(1) ELSE FAdd(x[2], y[2])
    IN  <<IF IsNaN(q) THEN 0 ELSE Sign(q[1]), q>>

\* an optional error cube: NoErr is an error cube that is None or unbound
NoErr == [none |-> TRUE]
SomeErr(e) == [none |-> FALSE, data |-> e]

(***************************************************************************)
(* The scalar (photometric) IP correction.  A Stokes cube is a tuple of    *)
(* planes <<I, Q, U>> (<<I, Q, U, V>> in the legacy module).               *)
(***************************************************************************)
\* the correction with the I term added instead of removed
instpol_correct_added(stokes_cube, pQ, pU) ==
    <<stokes_cube[1],
      [p \in Pixels |-> FAdd(stokes_cube[2][p], FMul(pQ, stokes_cube[1][p]))],
      [p \in Pixels |-> FAdd(stokes_cube[3][p], FMul(pU, stokes_cube[1][p]))]>>

instpol_correct(stokes_cube, pQ, pU) ==
    <<stokes_cube[1],
      [p \in Pixels |-> FSub(stokes_cube[2][p], FMul(pQ, stokes_cube[1][p]))],
      [p \in Pixels |-> FSub(stokes_cube[3][p], FMul(pU, stokes_cube[1][p]))]>>

\* instpol_correct of the legacy module polarization.py
instpol_correct_legacy(stokes_cube, cQ, cU, cV) ==
    <<stokes_cube[1],
      [p \in Pixels |-> FSub(stokes_cube[2][p], FMul(cQ, stokes_cube[1][p]))],
      [p \in Pixels |-> FSub(stokes_cube[3][p], FMul(cU, stokes_cube[1][p]))],
      [p \in Pixels |-> FSub(stokes_cube[4][p], FMul(cV, stokes_cube[1][p]))]>>

\* np.pi, as the rational 22/7
PiApprox == Rat(22, 7)

\* pixel p of the one-row image lies within radius r of the frame center
InRadius(p, r) == Abs(2 * (p - 1) - (NPix - 1)) + 1 <= 2 * r

RECURSIVE SumOver(_, _)
SumOver(S, x) ==
    IF S = {} THEN Zero
    ELSE LET p == CHOOSE q \in S : TRUE
         IN  RAdd(x[p], SumOver(S \ {p}, x))

\* the photometry service: sum of the finite pixels of an aperture
safe_aperture_sum(x, r) ==
    SumOver({p \in Pixels : InRadius(p, r) /\ IsFinite(x[p])}, x)
safe_annulus_sum(x, Rin, Rout) ==
    SumOver({p \in Pixels : InRadius(p, Rout) /\ ~InRadius(p, Rin) /\ IsFinite(x[p])}, x)

measure_instpol(I, X, r) ==
    LET x == [p \in Pixels |-> FDiv(X[p], I[p])]
    IN  FDiv(safe_aperture_sum(x, r), RMul(PiApprox, R(r * r)))

measure_instpol_ann(I, X, Rin, Rout) ==
    LET x == [p \in Pixels |-> FDiv(X[p], I[p])]
    IN  FDiv(safe_annulus_sum(x, Rin, Rout),
             RMul(PiApprox, R(Rout * Rout - Rin * Rin)))

\* a header is a function from the keys it has to their values
SetKey(hdr, k, v) == [x \in DOMAIN hdr \cup {k} |-> IF x = k THEN v ELSE hdr[x]]

\* polarization_ip_correct with a header; `arg` is the caller's stokes_data
\* array after the call
polarization_ip_correct(stokes_data, phot_rad, method, header) ==
    IF method \notin {"aperture", "annulus"}
    THEN [status |-> "UnboundLocalError", arg |-> stokes_data, header |-> header]
    ELSE LET cQ == IF method = "aperture"
                   THEN measure_instpol(stokes_data[1], stokes_data[2], phot_rad[1])
                   ELSE measure_instpol_ann(stokes_data[1], stokes_data[2],
                                            phot_rad[1], phot_rad[2])
             cU == IF method = "aperture"
                   THEN measure_instpol(stokes_data[1], stokes_data[3], phot_rad[1])
                   ELSE measure_instpol_ann(stokes_data[1], stokes_data[3],
                                            phot_rad[1], phot_rad[2])
             out == instpol_correct(stokes_data, cQ, cU)
         IN  [status |-> "ok", data |-> out, arg |-> out,
              header |-> SetKey(SetKey(header, "IP_FQ", cQ), "IP_FU", cU)]

(***************************************************************************)
(* Inputs of the scalar correction: the Stokes cubes of Field, scaled by   *)
(* one of Scales so that Q/I and U/I take several values; coefficient      *)
(* pairs of IPCoefs; every method name of Methods and two pairs of radii.  *)
(***************************************************************************)
Scales == {1, 3}
\* the ip_method of make_stokes_image when the caller gives none
DefaultIPMethod == "photometry"
IPMethods == {DefaultIPMethod, "aperture", "annulus"}
PhotRads == {<<8, 8>>, <<4, 8>>}

Cube(v, k) ==
    LET f == Field(v, 1)
    IN  <<[p \in Pixels |-> RMul(R(k), f.I[p])], f.Q, f.U>>

InitIP ==
    /\ op = "init"
    /\ \E v \in DOMAIN StokesVals, k \in Scales, c \in IPCoefs,
          m \in IPMethods, rad \in PhotRads :
          ipIn = [cube |-> Cube(v, k), pQ |-> c[1], pU |-> c[2],
                  method |-> m, phot_rad |-> rad,
                  header |-> [FIELD |-> "F" \o ToString(v)]]
    /\ ipOut = None
    /\ IdleComb /\ IdleMatch /\ IdleCal /\ IdleMM /\ IdleMSI /\ IdleProd
    /\ IdleNew

InstpolCorrect ==
    /\ op = "init"
    /\ op' = "instpol_correct"
    /\ ipOut' = [status |-> "ok", arg |-> ipIn.cube,
                 data |-> instpol_correct(ipIn.cube, ipIn.pQ, ipIn.pU)]
    /\ UNCHANGED <<frames, stokes, table, anchor, matched, filenames, opened,
                   cal, mmIn, mmOut, ipIn, msiIn, outfile, msiOut, prodIn,
                   prodOut,
                   workers, outpaths, depIn, depOut, legIn, legOut, anIn,
                   anOut, cfgIn, cfgOut>>

\* the legacy function on the cube extended by a V plane equal to its U plane
InstpolCorrectLegacy ==
    /\ op = "init"
    /\ op' = "instpol_correct_legacy"
    /\ LET cube4 == ipIn.cube \o <<ipIn.cube[3]>>
       IN  ipOut' = [status |-> "ok", arg |-> cube4,
                     data |-> instpol_correct_legacy(cube4, ipIn.pQ, ipIn.pU,
                                                     ipIn.pU)]
    /\ UNCHANGED <<frames, stokes, table, anchor, matched, filenames, opened,
                   cal, mmIn, mmOut, ipIn, msiIn, outfile, msiOut, prodIn,
                   prodOut,
                   workers, outpaths, depIn, depOut, legIn, legOut, anIn,
                   anOut, cfgIn, cfgOut>>

PolarizationIPCorrect ==
    /\ op = "init"
    /\ op' = "polarization_ip_correct"
    /\ ipOut' = polarization_ip_correct(ipIn.cube, ipIn.phot_rad, ipIn.method,
                                        ipIn.header)
    /\ UNCHANGED <<frames, stokes, table, anchor, matched, filenames, opened,
                   cal, mmIn, mmOut, ipIn, msiIn, outfile, msiOut, prodIn,
                   prodOut,
                   workers, outpaths, depIn, depOut, legIn, legOut, anIn,
                   anOut, cfgIn, cfgOut>>

NextIP == InstpolCorrect \/ InstpolCorrectLegacy \/ PolarizationIPCorrect

SpecIP == InitIP /\ [][NextIP]_vars

(***************************************************************************)
(* make_stokes_image.  The call record holds the arguments (mm_paths is    *)
(* the list of Mueller-matrix files, or the tag None); the file at outpath *)
(* is a record, Absent or what was written and when.  Cubes have one       *)
(* field.  Modification times are small integers.                          *)
(***************************************************************************)
Absent == [exists |-> FALSE]

\* any_file_newer(filenames, outpath): some input was modified after outpath
any_file_newer(mtimes, out) == \E t \in mtimes : t > out.mtime

\* make_triplediff_dict / make_doublediff_dict: output[key] = data per file
MMDict(files, keyOf) ==
    [key \in {keyOf[i] : i \in DOMAIN files} |->
        files[LastOfKey(files, keyOf, key)].data]

make_triplediff_dict(mm_paths) ==
    MMDict(mm_paths, [i \in DOMAIN mm_paths |-> TripleKey(mm_paths[i])])
make_doublediff_dict(mm_paths) ==
    MMDict(mm_paths, [i \in DOMAIN mm_paths |-> DoubleKey(mm_paths[i])])

\* the IP block and the append of the loop body of make_stokes_image, on
\* the stokes_data the blocks before left; stokes_err is stokes_err_data,
\* NoErr when the name was never bound
StokesFieldIP(a, stokes_data, stokes_err, hdr0) ==
    CHOOSE r \in
        {IF a.ip_correct /\ ipr.status # "ok"
         THEN [status |-> ipr.status, step |-> "polarization_ip_correct"]
         ELSE IF stokes_err.none
         THEN [status |-> "UnboundLocalError", step |-> "stokes_err_data"]
         ELSE LET err1 == stokes_err.data
                  err2 == <<err1[1],
                            [p \in Pixels |->
                               FHypot(err1[2][p],
                                      FScale(ipr.header["IP_FQ"], err1[1][p]))],
                            [p \in Pixels |->
                               FHypot(err1[3][p],
                                      FScale(ipr.header["IP_FU"], err1[1][p]))]>>
              IN  [status |-> "ok",
                   data |-> IF a.ip_correct THEN ipr.data ELSE stokes_data,
                   err |-> IF a.ip_correct THEN err2 ELSE err1,
                   header |-> SetKey(IF a.ip_correct THEN ipr.header ELSE hdr0,
                                     "STOKES", "I,Q,U")]
         : ipr \in {IF a.ip_correct
                    THEN polarization_ip_correct(stokes_data, a.phot_rad,
                                                 a.ip_method, hdr0)
                    ELSE [status |-> "ok", header |-> hdr0]}} : TRUE

\* the loop body of make_stokes_image for the one field of the cube: the
\* result is the (data, error, header) triple appended to the outputs, or the
\* error raised on the way.  stokes_err_data is bound only by the mm_correct
\* block.
StokesField(a, calr, mm) ==
    LET hdr0 == [FIELD |-> "F1"]
    IN  IF a.mm_correct
        THEN CHOOSE r \in
                {StokesFieldIP(a, <<mmr.I, mmr.Q, mmr.U>>,
                               SomeErr(<<mmr.I_err, mmr.Q_err, mmr.U_err>>), hdr0)
                 : mmr \in {MMCorrect([I |-> calr.I, Q |-> calr.Q, U |-> calr.U,
                                       I_err |-> calr.err], mm.Q, mm.U)}} : TRUE
        ELSE StokesFieldIP(a, <<calr.I, calr.Q, calr.U>>, NoErr, hdr0)

\* the time of a write: later than every time of the model
WriteTime == 3

\* an exception leaving make_stokes_image: nothing was written to outpath
RaiseTruncating(e, st, out) == [res |-> [status |-> e, step |-> st], outfile |-> Absent]
Raise(e, st, out) == [res |-> [status |-> e, step |-> st], outfile |-> out]

\* make_stokes_image from the Mueller matrices on: calr is the result of the
\* polarization calibration
StokesImageOf(a, out, calr) ==
    CHOOSE r \in
        {IF a.mm_correct /\ mm.status # "ok"
         THEN Raise(mm.status, "mm_dict", out)
         ELSE CHOOSE r2 \in
                 {IF fld.status # "ok"
                  THEN Raise(fld.status, fld.step, out)
                  ELSE [res |-> [status |-> "ok", step |-> "written"],
                        outfile |-> [exists |-> TRUE, data |-> fld.data,
                                     err |-> fld.err, header |-> fld.header,
                                     mtime |-> WriteTime]]
                  : fld \in {StokesField(a, calr, mm)}} : TRUE
         : mm \in {IF ~a.mm_correct THEN [status |-> "ok"]
                   ELSE IF a.mm_paths.none THEN [status |-> "TypeError"]
                   ELSE IF a.method = "triplediff"
                   THEN TripleDiffCall(make_triplediff_dict(a.mm_paths.files))
                   ELSE DoubleDiffCall(make_doublediff_dict(a.mm_paths.files))}}
        : TRUE

\* the call: what it returns or raises (res) and the file at outpath after it
make_stokes_image(a, out) ==
    IF ~a.force /\ out.exists /\ ~any_file_newer({a.path_mtime}, out)
    THEN [res |-> [status |-> "ok", step |-> "up to date"], outfile |-> out]
    ELSE IF a.method \notin {"triplediff", "doublediff"}
    THEN Raise("ValueError", "method", out)
    ELSE CHOOSE r \in
            {IF calr.status # "ok"
             THEN Raise(calr.status, "polarization_calibration", out)
             ELSE StokesImageOf(a, out, calr)
             : calr \in {IF a.method = "triplediff"
                         THEN polarization_calibration_triplediff(a.path_set)
                         ELSE polarization_calibration_doublediff(a.path_set)}}
            : TRUE

(***************************************************************************)
(* Inputs of make_stokes_image.  A Mueller-matrix file holds the I-row of  *)
(* the Mueller matrix of one configuration: 1/2 (1, q, u, 0) with q = +-1  *)
(* at HWP 0 and 45 and u = +-1 at HWP 22.5 and 67.5, the sign alternating  *)
(* with the camera, the modulator state and the HWP pair; the variant      *)
(* "ip" adds instrumental polarization and cross-talk to two of the rows.  *)
(***************************************************************************)
MMSign(key) ==
    (IF key[3] = 1 THEN 1 ELSE -1) * (IF key[2] = "A" THEN 1 ELSE -1)
        * (IF key[1] \in {Ang0, Ang22} THEN 1 ELSE -1)

MMFile(key, variant) ==
    LET g == MMSign(key)
        q == IF key[1] \in {Ang0, Ang45} THEN g ELSE 0
        u == IF key[1] \in {Ang22, Ang67} THEN g ELSE 0
        ip == IF variant = "ip" /\ key = <<Ang0, "A", 1>> THEN <<2, 0, 2, 0>>
              ELSE IF variant = "ip" /\ key = <<Ang22, "A", 1>> THEN <<4, 2, 0, 0>>
              ELSE <<0, 0, 0, 0>>
    IN  [ang |-> key[1], flc |-> key[2], cam |-> key[3],
         data |-> <<Rat(1 + ip[1], 2), Rat(q + ip[2], 2), Rat(u + ip[3], 2), Zero>>]

MMFiles(n, variant) == [i \in 1..n |-> MMFile(KeyAtHWPFast(i), variant)]

MMPathOptions ==
    {[none |-> TRUE]} \cup
    {[none |-> FALSE, files |-> f] :
        f \in {MMFiles(16, "ideal"), MMFiles(16, "ip"), MMFiles(4, "ip")}}

\* the i-th file of an observing sequence: intensity 4 (8 at the first
\* pixel), with a Q signal in the camera pair of (0, A) and a U signal at the
\* first pixel in the camera pair of (22.5, A); errors 4p at pixel p
MSIFile(i, hwpfast) ==
    LET j == ((i - 1) % NKeys) + 1
        key == IF hwpfast THEN KeyAtHWPFast(j) ELSE KeyAt(j)
        g == IF key[3] = 1 THEN 1 ELSE -1
        sig(p) == IF key[1] = Ang0 /\ key[2] = "A" THEN 8 * g
                  ELSE IF key[1] = Ang22 /\ key[2] = "A" /\ p = 1 THEN 8 * g
                  ELSE 0
    IN  [ang |-> key[1], flc |-> key[2], cam |-> key[3], derotang |-> 0,
         data |-> [p \in Pixels |-> R((IF p = 1 THEN 8 ELSE 4) + sig(p))],
         err |-> [p \in Pixels |-> Surd(4 * p)],
         prim_hdr |-> [DEROTANG |-> 0, TINT |-> Two],
         field_hdr |-> [FIELD |-> "F1", TINT |-> Two]]

\* file counts: one double-diff cycle, a count that is no multiple of 8, one
\* triple-diff cycle
MSICounts == {8, 15, 16}
MSIMethods == {"triplediff", "doublediff", "leastsq"}
DefaultPhotRad == <<8, 8>>
MTimes == {0, 2}
OldOutput ==
    [exists |-> TRUE, data |-> <<>>, err |-> <<>>, header |-> [FIELD |-> "old"],
     mtime |-> 1]

InitMSI ==
    /\ op = "init"
    /\ \E n \in MSICounts, hwpfast \in BOOLEAN, m \in MSIMethods,
          mmc \in BOOLEAN, ipc \in BOOLEAN, ipm \in IPMethods,
          frc \in BOOLEAN, t \in MTimes, mmp \in MMPathOptions :
          \E mmt \in (IF mmp.none THEN {0} ELSE MTimes) :
          msiIn = [path_set |-> [i \in 1..n |-> MSIFile(i, hwpfast)],
                   path_mtime |-> t, mm_paths |-> mmp, mm_mtime |-> mmt,
                   method |-> m,
                   mm_correct |-> mmc, ip_correct |-> ipc,
                   phot_rad |-> DefaultPhotRad, ip_method |-> ipm,
                   force |-> frc]
    /\ outfile \in {Absent, OldOutput}
    /\ msiOut = None
    /\ IdleComb /\ IdleMatch /\ IdleCal /\ IdleMM /\ IdleIP /\ IdleProd
    /\ IdleNew

MakeStokesImage ==
    /\ op = "init"
    /\ op' = "make_stokes_image"
    /\ LET r == make_stokes_image(msiIn, outfile)
       IN  msiOut' = r.res /\ outfile' = r.outfile
    /\ UNCHANGED <<frames, stokes, table, anchor, matched, filenames, opened,
                   cal, mmIn, mmOut, ipIn, ipOut, msiIn, prodIn, prodOut,
                   workers, outpaths, depIn, depOut, legIn, legOut, anIn,
                   anOut, cfgIn, cfgOut>>

NextMSI == MakeStokesImage

SpecMSI == InitMSI /\ [][NextMSI]_vars

(***************************************************************************)
(* Concurrent calibration cycles.  Each worker of a pool runs one call of  *)
(* make_stokes_image with its own arguments and its own outpath; the calls *)
(* interleave between the steps of the function: the up-to-date test, the  *)
(* calibration of the frame set with the Mueller dictionaries, the loop    *)
(* over the fields, and the write.  Everything but the files at the        *)
(* outpaths is local to a call; the keyspaces TRIPLEDIFF_SETS and          *)
(* DOUBLEDIFF_SETS are read and never assigned.                            *)
(***************************************************************************)
Workers == {1, 2}

\* a write that replaces the file at every outpath
WriteToEvery(fs, path, file) == [q \in DOMAIN fs |-> file]
\* hdul.writeto(outpath, overwrite=True)
WriteTo(fs, path, file) == [fs EXCEPT ![path] = file]

ParCall(n, m, mmc, ipm, frc) ==
    [path_set |-> [i \in 1..n |-> MSIFile(i, FALSE)], path_mtime |-> 2,
     mm_paths |-> [none |-> FALSE, files |-> MMFiles(16, "ip")],
     method |-> m, mm_correct |-> mmc, ip_correct |-> TRUE,
     phot_rad |-> DefaultPhotRad, ip_method |-> ipm, force |-> frc]

\* two calls that write different cubes, a call that finds its output up to
\* date unless it is absent, and calls that fail in the calibration, in the
\* method dispatch and in the loop over the fields
ParCalls ==
    {ParCall(16, "triplediff", TRUE, "aperture", TRUE),
     ParCall(16, "doublediff", TRUE, "annulus", TRUE),
     [ParCall(8, "doublediff", TRUE, "aperture", FALSE) EXCEPT !.path_mtime = 0],
     ParCall(15, "triplediff", TRUE, "aperture", TRUE),
     ParCall(16, "leastsq", TRUE, "aperture", TRUE),
     ParCall(16, "triplediff", FALSE, "aperture", TRUE)}

Running == [status |-> "running", step |-> "none"]
NoLocals == [bound |-> FALSE]

InitPar ==
    /\ op = "init"
    /\ \E c \in [Workers -> ParCalls], o \in [Workers -> {Absent, OldOutput}] :
          /\ workers = [w \in Workers |->
                          [args |-> c[w], out0 |-> o[w], pc |-> "start",
                           loc |-> NoLocals, res |-> Running]]
          /\ outpaths = o
    /\ IdleComb /\ IdleMatch /\ IdleCal /\ IdleMM /\ IdleIP /\ IdleMSI /\ IdleProd
    /\ IdleDep /\ IdleLeg /\ IdleAn /\ IdleCfg

\* the worker w leaves its call with the exception e raised at step st
ParRaise(w, e, st) ==
    /\ workers' = [workers EXCEPT ![w].pc = "failed", ![w].loc = NoLocals,
                                  ![w].res = [status |-> e, step |-> st]]
    /\ UNCHANGED outpaths

\* if not force and outpath.exists() and not any_file_newer(...): return
ParCheck ==
    \E w \in Workers :
        /\ workers[w].pc = "start"
        /\ op' = "pool"
        /\ LET a == workers[w].args
           IN  IF ~a.force /\ outpaths[w].exists
                  /\ ~any_file_newer({a.path_mtime}, outpaths[w])
               THEN workers' = [workers EXCEPT
                                   ![w].pc = "done",
                                   ![w].res = [status |-> "ok",
                                               step |-> "up to date"]]
               ELSE workers' = [workers EXCEPT ![w].pc = "calibrate"]
        /\ UNCHANGED <<outpaths, frames, stokes, table, anchor, matched,
                       filenames, opened, cal, mmIn, mmOut, ipIn, ipOut, msiIn,
                       outfile, msiOut, prodIn, prodOut, depIn, depOut, legIn,
                       legOut, anIn, anOut, cfgIn, cfgOut>>

\* the method dispatch: the calibration and the differenced Mueller rows
ParCalibrate ==
    \E w \in Workers :
        /\ workers[w].pc = "calibrate"
        /\ op' = "pool"
        /\ LET a == workers[w].args
           IN  IF a.method \notin {"triplediff", "doublediff"}
               THEN ParRaise(w, "ValueError", "method")
               ELSE \E calr \in {IF a.method = "triplediff"
                                 THEN polarization_calibration_triplediff(a.path_set)
                                 ELSE polarization_calibration_doublediff(a.path_set)} :
                    IF calr.status # "ok"
                    THEN ParRaise(w, calr.status, "polarization_calibration")
                    ELSE \E mm \in {IF ~a.mm_correct THEN [status |-> "ok"]
                                    ELSE IF a.mm_paths.none
                                    THEN [status |-> "TypeError"]
                                    ELSE IF a.method = "triplediff"
                                    THEN TripleDiffCall(
                                            make_triplediff_dict(a.mm_paths.files))
                                    ELSE DoubleDiffCall(
                                            make_doublediff_dict(a.mm_paths.files))} :
                         IF mm.status # "ok"
                         THEN ParRaise(w, mm.status, "mm_dict")
                         ELSE /\ workers' = [workers EXCEPT
                                                ![w].pc = "fields",
                                                ![w].loc = [bound |-> TRUE,
                                                            calr |-> calr,
                                                            mm |-> mm]]
                              /\ UNCHANGED outpaths
        /\ UNCHANGED <<frames, stokes, table, anchor, matched,
                       filenames, opened, cal, mmIn, mmOut, ipIn, ipOut, msiIn,
                       outfile, msiOut, prodIn, prodOut, depIn, depOut, legIn,
                       legOut, anIn, anOut, cfgIn, cfgOut>>

\* the loop over the fields, into output_data, output_data_err, output_hdrs
ParFields ==
    \E w \in Workers :
        /\ workers[w].pc = "fields"
        /\ op' = "pool"
        /\ \E fld \in {StokesField(workers[w].args, workers[w].loc.calr,
                                   workers[w].loc.mm)} :
              IF fld.status # "ok"
              THEN ParRaise(w, fld.status, fld.step)
              ELSE /\ workers' = [workers EXCEPT
                                     ![w].pc = "write",
                                     ![w].loc = [bound |-> TRUE, fld |-> fld]]
                   /\ UNCHANGED outpaths
        /\ UNCHANGED <<frames, stokes, table, anchor, matched,
                       filenames, opened, cal, mmIn, mmOut, ipIn, ipOut, msiIn,
                       outfile, msiOut, prodIn, prodOut, depIn, depOut, legIn,
                       legOut, anIn, anOut, cfgIn, cfgOut>>

\* hdul.writeto(outpath, overwrite=True); return outpath
ParWrite ==
    \E w \in Workers :
        /\ workers[w].pc = "write"
        /\ op' = "pool"
        /\ LET fld == workers[w].loc.fld
           IN  outpaths' = WriteTo(outpaths, w,
                                   [exists |-> TRUE, data |-> fld.data,
                                    err |-> fld.err, header |-> fld.header,
                                    mtime |-> WriteTime])
        /\ workers' = [workers EXCEPT
                          ![w].pc = "done", ![w].loc = NoLocals,
                          ![w].res = [status |-> "ok", step |-> "written"]]
        /\ UNCHANGED <<frames, stokes, table, anchor, matched,
                       filenames, opened, cal, mmIn, mmOut, ipIn, ipOut, msiIn,
                       outfile, msiOut, prodIn, prodOut, depIn, depOut, legIn,
                       legOut, anIn, anOut, cfgIn, cfgOut>>

NextPar == ParCheck \/ ParCalibrate \/ ParFields \/ ParWrite

SpecPar == InitPar /\ [][NextPar]_vars

(***************************************************************************)
(* Two cycles of make_stokes_image side by side.  The second call gets the *)
(* frames of the first with the data and the error of one file changed at  *)
(* the pixels other than p; everything else is the same.                   *)
(***************************************************************************)
ChangedAt(file, q, d, e) ==
    [file EXCEPT !.data[q] = RAdd(@, R(d * (IF q = 1 THEN 2 ELSE 1))),
                 !.err[q] = Surd(e * q)]

ChangedElsewhere(files, k, p, d, e) ==
    [i \in DOMAIN files |->
        IF i # k THEN files[i]
        ELSE [files[i] EXCEPT
                 !.data = [q \in Pixels |->
                             IF q = p THEN @[q]
                             ELSE ChangedAt(files[i], q, d, e).data[q]],
                 !.err = [q \in Pixels |->
                             IF q = p THEN @[q]
                             ELSE ChangedAt(files[i], q, d, e).err[q]]]]

\* the changes keep the values of the cubes small: they add one or three
\* times the intensity of the pixel to the mean over the files of a key
DepChanges == {1, 3}
DepErr == 28
DepFiles == {1, 2, 16}
DepPhotRad == <<1, 2>>

InitDep ==
    /\ op = "init"
    /\ \E m \in {"triplediff", "doublediff"}, ipc \in BOOLEAN,
          ipm \in {"aperture", "annulus"}, variant \in {"ideal", "ip"},
          p \in Pixels, k \in DepFiles, c \in DepChanges :
          LET a == [ParCall(16, m, TRUE, ipm, TRUE) EXCEPT
                       !.ip_correct = ipc, !.phot_rad = DepPhotRad,
                       !.mm_paths = [none |-> FALSE,
                                     files |-> MMFiles(16, variant)]]
              d == c * 4 * (IF m = "triplediff" THEN 16 ELSE 8)
          IN  depIn = [a1 |-> a,
                       a2 |-> [a EXCEPT !.path_set =
                                 ChangedElsewhere(a.path_set, k, p, d, DepErr)],
                       p |-> p]
    /\ depOut = None
    /\ IdleComb /\ IdleMatch /\ IdleCal /\ IdleMM /\ IdleIP /\ IdleMSI /\ IdleProd
    /\ IdlePar /\ IdleLeg /\ IdleAn /\ IdleCfg

\* each call writes to an outpath of its own, absent before
RunPair ==
    /\ op = "init"
    /\ op' = "pair"
    /\ depOut' = <<make_stokes_image(depIn.a1, Absent),
                   make_stokes_image(depIn.a2, Absent)>>
    /\ UNCHANGED <<frames, stokes, table, anchor, matched, filenames, opened,
                   cal, mmIn, mmOut, ipIn, ipOut, msiIn, outfile, msiOut,
                   prodIn, prodOut, workers, outpaths, depIn, legIn, legOut,
                   anIn, anOut, cfgIn, cfgOut>>

NextDep == RunPair

SpecDep == InitDep /\ [][NextDep]_vars

(***************************************************************************)
(* The radial-Stokes / product synthesizer (pdi/utils.py).  An angle is    *)
(* kept as the point <<cos, sin>> it marks on the unit circle, with        *)
(* rational coordinates, so that np.cos and np.sin are exact: adding       *)
(* angles composes the rotations and 2 * x adds x to itself.               *)
(***************************************************************************)
Cos(x) == x[1]
Sin(x) == x[2]
AngAdd(x, y) ==
    <<RSub(RMul(x[1], y[1]), RMul(x[2], y[2])),
      RAdd(RMul(x[2], y[1]), RMul(x[1], y[2]))>>
AngDouble(x) == AngAdd(x, x)
AngNeg(x) == <<x[1], <<0 - x[2][1], x[2][2]>>>>

\* a NaN entry of an error map
NaNErr == <<0, NaN>>

\* radial_stokes with Uphi taken with the sign of Q flipped
radial_stokes_flipped(stokes_cube, stokes_err, thetas, phi) ==
    LET x == [p \in Pixels |-> AngDouble(AngAdd(thetas[p], phi))]
        cos2t == [p \in Pixels |-> Cos(x[p])]
        sin2t == [p \in Pixels |-> Sin(x[p])]
        Qphi == [p \in Pixels |->
                    FSub(FMul(FNeg(cos2t[p]), stokes_cube[2][p]),
                         FMul(sin2t[p], stokes_cube[3][p]))]
        Uphi == [p \in Pixels |->
                    FSub(FMul(FNeg(sin2t[p]), stokes_cube[2][p]),
                         FMul(cos2t[p], stokes_cube[3][p]))]
        Qphi_err == [p \in Pixels |->
                        IF stokes_err.none THEN NaNErr
                        ELSE FHypot(FScale(cos2t[p], stokes_err.data[2][p]),
                                    FScale(sin2t[p], stokes_err.data[3][p]))]
        Uphi_err == [p \in Pixels |->
                        IF stokes_err.none THEN NaNErr
                        ELSE FHypot(FScale(sin2t[p], stokes_err.data[2][p]),
                                    FScale(cos2t[p], stokes_err.data[3][p]))]
    IN  <<Qphi, Uphi, Qphi_err, Uphi_err>>

\* thetas is what frame_angles(stokes_cube, conv="astro") returns
radial_stokes(stokes_cube, stokes_err, thetas, phi) ==
    LET x == [p \in Pixels |-> AngDouble(AngAdd(thetas[p], phi))]
        cos2t == [p \in Pixels |-> Cos(x[p])]
        sin2t == [p \in Pixels |-> Sin(x[p])]
        Qphi == [p \in Pixels |->
                    FSub(FMul(FNeg(cos2t[p]), stokes_cube[2][p]),
                         FMul(sin2t[p], stokes_cube[3][p]))]
        Uphi == [p \in Pixels |->
                    FSub(FMul(sin2t[p], stokes_cube[2][p]),
                         FMul(cos2t[p], stokes_cube[3][p]))]
        Qphi_err == [p \in Pixels |->
                        IF stokes_err.none THEN NaNErr
                        ELSE FHypot(FScale(cos2t[p], stokes_err.data[2][p]),
                                    FScale(sin2t[p], stokes_err.data[3][p]))]
        Uphi_err == [p \in Pixels |->
                        IF stokes_err.none THEN NaNErr
                        ELSE FHypot(FScale(sin2t[p], stokes_err.data[2][p]),
                                    FScale(cos2t[p], stokes_err.data[3][p]))]
    IN  <<Qphi, Uphi, Qphi_err, Uphi_err>>

\* radial_stokes of the legacy module polarization.py, called with a phi
radial_stokes_legacy(stokes_cube, thetas, phi) ==
    LET x == [p \in Pixels |-> AngDouble(AngAdd(thetas[p], phi))]
        cos2t == [p \in Pixels |-> Cos(x[p])]
        sin2t == [p \in Pixels |-> Sin(x[p])]
    IN  <<[p \in Pixels |->
              FSub(FMul(FNeg(stokes_cube[2][p]), cos2t[p]),
                   FMul(stokes_cube[3][p], sin2t[p]))],
          [p \in Pixels |->
              FSub(FMul(stokes_cube[2][p], sin2t[p]),
                   FMul(stokes_cube[3][p], cos2t[p]))]>>

\* rotate_stokes with the sense of the rotation reversed
rotate_stokes_reversed(stokes_cube, theta) ==
    LET sin2ts == Sin(AngDouble(theta))
        cos2ts == Cos(AngDouble(theta))
    IN  [stokes_cube EXCEPT
            ![2] = [p \in Pixels |->
                      FAdd(FMul(stokes_cube[2][p], cos2ts),
                           FMul(stokes_cube[3][p], sin2ts))],
            ![3] = [p \in Pixels |->
                      FSub(FMul(stokes_cube[3][p], cos2ts),
                           FMul(stokes_cube[2][p], sin2ts))]]

rotate_stokes(stokes_cube, theta) ==
    LET sin2ts == Sin(AngDouble(theta))
        cos2ts == Cos(AngDouble(theta))
    IN  [stokes_cube EXCEPT
            ![2] = [p \in Pixels |->
                      FSub(FMul(stokes_cube[2][p], cos2ts),
                           FMul(stokes_cube[3][p], sin2ts))],
            ![3] = [p \in Pixels |->
                      FAdd(FMul(stokes_cube[2][p], sin2ts),
                           FMul(stokes_cube[3][p], cos2ts))]]

\* np.hypot of two data values: the error-style value sqrt(a^2 + b^2)
HypotR(a, b) ==
    LET q == FAdd(FMul(a, a), FMul(b, b))
    IN  <<IF IsNaN(q) THEN 0 ELSE Sign(q[1]), q>>

\* x / y for x = sqrt(x[2]) >= 0 and y = sqrt(y[2]) >= 0
SurdOverSurd(x, y) ==
    LET q == FDiv(x[2], y[2])
    IN  <<IF IsNaN(q) THEN 0 ELSE Sign(q[1]), q>>

\* x / r for x = sqrt(x[2]) >= 0 and a float r >= 0
SurdOver(x, r) ==
    LET q == FDiv(x[2], FMul(r, r))
    IN  <<IF IsNaN(q) THEN 0 ELSE Sign(q[1]), q>>

\* np.arctan2(y, x): the angle of the ray from the origin through (x, y),
\* kept as the primitive integer vector along that ray; arctan2(0, 0) = 0
Arctan2(y, x) ==
    LET X == x[1] * y[2]
        Y == y[1] * x[2]
        g == GCD(Abs(X), Abs(Y))
    IN  IF g = 0 THEN <<1, 0>> ELSE <<X \div g, Y \div g>>

\* stokes_products with the arguments of arctan2 in the other order
stokes_products_swapped(stokes_frame, stokes_err, thetas, phi) ==
    IF stokes_err.none THEN [status |-> "TypeError"]
    ELSE
    LET err == stokes_err.data
        pi == [p \in Pixels |-> HypotR(stokes_frame[3][p], stokes_frame[2][p])]
        aolp == [p \in Pixels |-> Arctan2(stokes_frame[2][p], stokes_frame[3][p])]
        rad == radial_stokes(stokes_frame, stokes_err, thetas, phi)
        pi_err == [p \in Pixels |->
                     SurdOverSurd(FHypot(FScale(stokes_frame[3][p], err[3][p]),
                                         FScale(stokes_frame[2][p], err[2][p])),
                                  pi[p])]
        aolp_err == [p \in Pixels |->
                       SurdOver(FHypot(FScale(stokes_frame[2][p], err[3][p]),
                                       FScale(stokes_frame[3][p], err[2][p])),
                                pi[p][2])]
    IN  [status |-> "ok",
         data |-> <<stokes_frame[1], stokes_frame[2], stokes_frame[3],
                    rad[1], rad[2], pi, aolp>>,
         data_err |-> <<err[1], err[2], err[3], rad[3], rad[4], pi_err, aolp_err>>]

\* pi ** 2 is the square of sqrt(pi[2]), that is pi[2]; SurdOver squares its
\* divisor, so it is handed the value whose square is pi ** 2 squared
stokes_products(stokes_frame, stokes_err, thetas, phi) ==
    IF stokes_err.none THEN [status |-> "TypeError"]
    ELSE
    LET err == stokes_err.data
        pi == [p \in Pixels |-> HypotR(stokes_frame[3][p], stokes_frame[2][p])]
        aolp == [p \in Pixels |-> Arctan2(stokes_frame[3][p], stokes_frame[2][p])]
        rad == radial_stokes(stokes_frame, stokes_err, thetas, phi)
        \* error propagation
        pi_err == [p \in Pixels |->
                     SurdOverSurd(FHypot(FScale(stokes_frame[3][p], err[3][p]),
                                         FScale(stokes_frame[2][p], err[2][p])),
                                  pi[p])]
        aolp_err == [p \in Pixels |->
                       SurdOver(FHypot(FScale(stokes_frame[2][p], err[3][p]),
                                       FScale(stokes_frame[3][p], err[2][p])),
                                pi[p][2])]
    IN  [status |-> "ok",
         data |-> <<stokes_frame[1], stokes_frame[2], stokes_frame[3],
                    rad[1], rad[2], pi, aolp>>,
         data_err |-> <<err[1], err[2], err[3], rad[3], rad[4], pi_err, aolp_err>>]

(***************************************************************************)
(* Inputs of the synthesizer: the Stokes frames of Field, error maps that  *)
(* differ between the planes and the pixels, azimuthal angles taken in     *)
(* turn from ThetaSeq and an offset angle of Phis.                         *)
(***************************************************************************)
ThetaSeq ==
    <<<<R(1), R(0)>>, <<Rat(3, 5), Rat(4, 5)>>, <<R(0), R(1)>>,
      <<Rat(-4, 5), Rat(3, 5)>>, <<R(-1), R(0)>>, <<Rat(3, 5), Rat(-4, 5)>>>>
Phis ==
    {<<R(1), R(0)>>, <<R(0), R(1)>>, <<Rat(4, 5), Rat(3, 5)>>,
     <<Rat(3, 5), Rat(-4, 5)>>}

ProdErr(k) == <<[p \in Pixels |-> Surd(k)], [p \in Pixels |-> Surd(k + p)],
                [p \in Pixels |-> Surd(2 * p)]>>

InitProd ==
    /\ op = "init"
    /\ \E v \in DOMAIN StokesVals, t \in DOMAIN ThetaSeq, ph \in Phis,
          k \in 1..MaxVal, noerr \in BOOLEAN :
          prodIn = [frame |-> Cube(v, 1),
                    err |-> IF noerr THEN NoErr ELSE SomeErr(ProdErr(k)),
                    thetas |-> [p \in Pixels |->
                                  ThetaSeq[((t + p - 2) % Len(ThetaSeq)) + 1]],
                    phi |-> ph]
    /\ prodOut = None
    /\ IdleComb /\ IdleMatch /\ IdleCal /\ IdleMM /\ IdleIP /\ IdleMSI
    /\ IdleNew

RadialStokes ==
    /\ op = "init"
    /\ op' = "radial_stokes"
    /\ LET r == radial_stokes(prodIn.frame, prodIn.err, prodIn.thetas, prodIn.phi)
       IN  prodOut' = [Qphi |-> r[1], Uphi |-> r[2],
                       Qphi_err |-> r[3], Uphi_err |-> r[4]]
    /\ UNCHANGED <<frames, stokes, table, anchor, matched, filenames, opened,
                   cal, mmIn, mmOut, ipIn, ipOut, msiIn, outfile, msiOut,
                   prodIn,
                   workers, outpaths, depIn, depOut, legIn, legOut, anIn,
                   anOut, cfgIn, cfgOut>>

RadialStokesLegacy ==
    /\ op = "init"
    /\ op' = "radial_stokes_legacy"
    /\ LET r == radial_stokes_legacy(prodIn.frame, prodIn.thetas, prodIn.phi)
       IN  prodOut' = [Qphi |-> r[1], Uphi |-> r[2]]
    /\ UNCHANGED <<frames, stokes, table, anchor, matched, filenames, opened,
                   cal, mmIn, mmOut, ipIn, ipOut, msiIn, outfile, msiOut,
                   prodIn,
                   workers, outpaths, depIn, depOut, legIn, legOut, anIn,
                   anOut, cfgIn, cfgOut>>

\* rotate_stokes by -phi of the cube (I, Qphi, Uphi) that radial_stokes gave
RotateBack ==
    /\ op = "radial_stokes"
    /\ op' = "rotate_stokes"
    /\ prodOut' = [cube |-> rotate_stokes(<<prodIn.frame[1], prodOut.Qphi,
                                            prodOut.Uphi>>, AngNeg(prodIn.phi))]
    /\ UNCHANGED <<frames, stokes, table, anchor, matched, filenames, opened,
                   cal, mmIn, mmOut, ipIn, ipOut, msiIn, outfile, msiOut,
                   prodIn,
                   workers, outpaths, depIn, depOut, legIn, legOut, anIn,
                   anOut, cfgIn, cfgOut>>

StokesProducts ==
    /\ op = "init"
    /\ op' = "stokes_products"
    /\ prodOut' = stokes_products(prodIn.frame, prodIn.err, prodIn.thetas,
                                  prodIn.phi)
    /\ UNCHANGED <<frames, stokes, table, anchor, matched, filenames, opened,
                   cal, mmIn, mmOut, ipIn, ipOut, msiIn, outfile, msiOut,
                   prodIn,
                   workers, outpaths, depIn, depOut, legIn, legOut, anIn,
                   anOut, cfgIn, cfgOut>>

NextProd == RadialStokes \/ RadialStokesLegacy \/ RotateBack \/ StokesProducts

SpecProd == InitProd /\ [][NextProd]_vars

(***************************************************************************)
(* Claims about the matcher.  Returned(m) says that method m ran and       *)
(* returned a set.                                                         *)
(***************************************************************************)
Returned(m) == op = m /\ matched.status = "ok"
AnchorDelta(i) == Abs(table[anchor].mjd - table[i].mjd)

\* row i is the first listed among the rows of `mask` nearest to the anchor
FirstNearest(i, mask) ==
    /\ i \in mask
    /\ \A j \in mask :
         /\ AnchorDelta(i) <= AnchorDelta(j)
         /\ (AnchorDelta(j) = AnchorDelta(i) => i <= j)

(***************************************************************************)
(* C3: for every key of the keyspace the selected path is that of a row    *)
(* with exactly that key, at the least absolute MJD difference to the      *)
(* anchor among the rows of that key and, among those at that least        *)
(* difference, the one listed first; it is fixed by the rows of that key   *)
(* and the anchor's timestamp alone.                                       *)
(***************************************************************************)
C3_NearestFirstListed ==
    /\ Returned("get_triplediff_set") =>
         \A key \in TRIPLEDIFF_SETS :
            /\ key \in DOMAIN matched.set
            /\ \E i \in DOMAIN table :
                  /\ table[i].path = matched.set[key]
                  /\ FirstNearest(i, {j \in DOMAIN table : TripleKey(table[j]) = key})
    /\ Returned("get_doublediff_set") =>
         \A key \in DOUBLEDIFF_SETS :
            /\ key \in DOMAIN matched.set
            /\ \E i \in DOMAIN table :
                  /\ table[i].path = matched.set[key]
                  /\ FirstNearest(i, {j \in DOMAIN table : DoubleKey(table[j]) = key})

\* in one returned set: a key other than the anchor's has two rows tied at the
\* least distance and keeps the first listed, and a key has a later-listed row
\* strictly nearer than an earlier one and keeps the nearer
C3_Witness ==
    /\ Returned("get_doublediff_set")
    /\ \E i, j \in DOMAIN table :
          /\ i < j
          /\ DoubleKey(table[i]) = DoubleKey(table[j])
          /\ DoubleKey(table[i]) # DoubleKey(table[anchor])
          /\ AnchorDelta(i) = AnchorDelta(j)
          /\ matched.set[DoubleKey(table[i])] = table[i].path
    /\ \E i, j \in DOMAIN table :
          /\ i < j
          /\ DoubleKey(table[i]) = DoubleKey(table[j])
          /\ AnchorDelta(j) < AnchorDelta(i)
          /\ matched.set[DoubleKey(table[j])] = table[j].path

(***************************************************************************)
(* C4: the returned set maps the anchor row's own key to the anchor row's  *)
(* path, whatever other rows share the anchor's key.                       *)
(***************************************************************************)
C4_AnchorKeepsOwnPath ==
    /\ Returned("get_triplediff_set") =>
         matched.set[TripleKey(table[anchor])] = table[anchor].path
    /\ Returned("get_doublediff_set") =>
         matched.set[DoubleKey(table[anchor])] = table[anchor].path

(***************************************************************************)
(* C5: a returned mapping has exactly the keys of the keyspace (16 for the *)
(* triple, 8 for the double difference), each mapped to the path of a row  *)
(* whose key fields equal that key.                                        *)
(***************************************************************************)
C5_TotalOverKeyspace ==
    /\ Returned("get_triplediff_set") =>
         /\ DOMAIN matched.set = TRIPLEDIFF_SETS
         /\ Cardinality(DOMAIN matched.set) = 16
         /\ \A key \in TRIPLEDIFF_SETS : \E i \in DOMAIN table :
               table[i].path = matched.set[key] /\ TripleKey(table[i]) = key
    /\ Returned("get_doublediff_set") =>
         /\ DOMAIN matched.set = DOUBLEDIFF_SETS
         /\ Cardinality(DOMAIN matched.set) = 8
         /\ \A key \in DOUBLEDIFF_SETS : \E i \in DOMAIN table :
               table[i].path = matched.set[key] /\ DoubleKey(table[i]) = key

C5_Witness ==
    /\ Returned("get_doublediff_set")
    /\ Len(table) > NKeys
    /\ \E key \in DOUBLEDIFF_SETS : matched.set[key] > NKeys

(***************************************************************************)
(* C6: if a key of the required keyspace has no row in the table, the      *)
(* matcher fails with an error and returns no set, complete or partial.    *)
(***************************************************************************)
C6_MissingKeyFails ==
    /\ (op = "get_triplediff_set"
          /\ \E key \in TRIPLEDIFF_SETS : MaskTriple(table, key) = {}) =>
         matched.status = "ValueError" /\ "set" \notin DOMAIN matched
    /\ (op = "get_doublediff_set"
          /\ \E key \in DOUBLEDIFF_SETS : MaskDouble(table, key) = {}) =>
         matched.status = "ValueError" /\ "set" \notin DOMAIN matched

C6_Witness ==
    /\ op = "get_triplediff_set"
    /\ \E key \in TRIPLEDIFF_SETS : MaskTriple(table, key) = {}
    /\ Len(table) >= NKeys
    /\ matched.status = "ValueError"

(***************************************************************************)
(* Claims about the calibration entry points.                              *)
(***************************************************************************)
Names(msg, n) == \E i \in DOMAIN msg : msg[i] = ToString(n)

BadCount(m, multiple) == op = m /\ Len(filenames) % multiple # 0

CountErrorEarly ==
    /\ cal.status = "ValueError"
    /\ opened = {}
    /\ DOMAIN cal \cap {"I", "Q", "U", "err"} = {}

(***************************************************************************)
(* C7, as stated: a file count that is not a multiple of 16 (8) fails      *)
(* before any input file is opened and before any output is produced, with *)
(* an error that names the required multiple and the count received.       *)
(***************************************************************************)
C7_ErrorNamesMultipleAndCount ==
    /\ BadCount("polarization_calibration_triplediff", 16) =>
         /\ CountErrorEarly
         /\ Names(cal.msg, 16) /\ Names(cal.msg, Len(filenames))
    /\ BadCount("polarization_calibration_doublediff", 8) =>
         /\ CountErrorEarly
         /\ Names(cal.msg, 8) /\ Names(cal.msg, Len(filenames))

(***************************************************************************)
(* C7, amended: a file count that is not a multiple of 16 (8) fails before *)
(* any input file is opened and before any output is produced, with an     *)
(* error that names the required multiple; it does not name the count      *)
(* received.                                                               *)
(***************************************************************************)
C7_ErrorNamesMultipleOnly ==
    /\ BadCount("polarization_calibration_triplediff", 16) =>
         /\ CountErrorEarly
         /\ Names(cal.msg, 16) /\ ~Names(cal.msg, Len(filenames))
    /\ BadCount("polarization_calibration_doublediff", 8) =>
         /\ CountErrorEarly
         /\ Names(cal.msg, 8) /\ ~Names(cal.msg, Len(filenames))

C7_Witness ==
    /\ BadCount("polarization_calibration_triplediff", 16)
    /\ Len(filenames) > 16
    /\ cal.status = "ValueError"
    /\ opened = {}

(***************************************************************************)
(* C15: for 16*k files that form k complete 16-frame sets,                 *)
(* polarization_calibration_triplediff returns the Stokes frames of all k  *)
(* sets: for each set there is a returned Stokes frame, and it is the      *)
(* triple difference of the 16 frames of that set alone.                   *)
(***************************************************************************)
\* the j-th group of 16 consecutive files
C15_Set(j) == [i \in 1..16 |-> filenames[16 * (j - 1) + i]]

C15_SetStokes(j) ==
    LET files == C15_Set(j)
        keyOf == [i \in DOMAIN files |-> TripleKey(files[i])]
    IN  TripleDiffCall(CubeDict(files, keyOf))

C15_CompleteSets ==
    /\ Len(filenames) >= 16
    /\ Len(filenames) % 16 = 0
    /\ \A j \in 1..(Len(filenames) \div 16) : C15_SetStokes(j).status = "ok"

\* the Stokes frames held by the returned HDU list
C15_ReturnedFrames ==
    IF cal.status = "ok" THEN {<<cal.I, cal.Q, cal.U>>} ELSE {}

C15_AllSetsReturned ==
    (op = "polarization_calibration_triplediff" /\ C15_CompleteSets) =>
        \A j \in 1..(Len(filenames) \div 16) :
            LET r == C15_SetStokes(j)
            IN  <<r.I, r.Q, r.U>> \in C15_ReturnedFrames

(***************************************************************************)
(* C16: the error map returned by polarization_calibration_triplediff and  *)
(* polarization_calibration_doublediff is, at every pixel,                 *)
(* sqrt(mean(err_i^2)) / sqrt(N) over the N (derotated) input error maps:  *)
(* the value >= 0 whose square is (sum of err_i^2 / N) / N.                *)
(***************************************************************************)
RECURSIVE C16_SumSq(_, _, _)
C16_SumSq(lo, hi, p) ==
    IF lo > hi THEN Zero
    ELSE IF lo = hi
    THEN derotate_cube(filenames[lo].err, filenames[lo].derotang)[p][2]
    ELSE LET mid == (lo + hi) \div 2
         IN  RAdd(C16_SumSq(lo, mid, p), C16_SumSq(mid + 1, hi, p))

C16_CalReturned ==
    /\ op \in {"polarization_calibration_triplediff",
               "polarization_calibration_doublediff"}
    /\ cal.status = "ok"

C11_Removed(cube, X, c) ==
    [p \in Pixels |->
        IF IsFinite(c) THEN RSub(cube[X][p], RMul(c, cube[1][p])) ELSE NaN]

MSICalled == op = "make_stokes_image"
Computed == MSICalled /\ msiOut.step # "up to date"
CalOf ==
    IF msiIn.method = "triplediff"
    THEN polarization_calibration_triplediff(msiIn.path_set)
    ELSE polarization_calibration_doublediff(msiIn.path_set)

(***************************************************************************)
(* C12: the Mueller-matrix correction is optional: with mm_correct = False *)
(* and a complete valid frame set (ip_correct True or False) the call runs *)
(* to completion and writes an output that holds the combiner's I, Q, U    *)
(* (IP-corrected when ip_correct) and an error map for each of I, Q, U.    *)
(***************************************************************************)
C12_MMCorrectOptional ==
    (Computed /\ ~msiIn.mm_correct
        /\ msiIn.method \in {"triplediff", "doublediff"}
        /\ CalOf.status = "ok") =>
        /\ msiOut.status = "ok"
        /\ outfile.exists /\ outfile.mtime = WriteTime
        /\ outfile.data[1] = CalOf.I
        /\ ~msiIn.ip_correct => outfile.data = <<CalOf.I, CalOf.Q, CalOf.U>>
        /\ Len(outfile.err) = 3

(***************************************************************************)
(* C13: a call of make_stokes_image with a method outside {"triplediff",   *)
(* "doublediff"} raises an error in every state of the file system (output *)
(* present or absent, forced or not) and produces no Stokes output.        *)
(***************************************************************************)
C13_UnknownMethodAlwaysFails ==
    (MSICalled /\ msiIn.method \notin {"triplediff", "doublediff"}) =>
        /\ msiOut.status = "ValueError"
        /\ ~outfile.exists \/ outfile = OldOutput

(***************************************************************************)
(* C14: if make_stokes_image fails at any step (count check, missing key   *)
(* in the combiner, unknown method, Mueller or IP correction), the file at *)
(* outpath is exactly what it was before the call: neither created nor     *)
(* modified.                                                               *)
(***************************************************************************)
C14_FailedCallLeavesOutpath ==
    [][(MSICalled' /\ msiOut'.status # "ok") => outfile' = outfile]_vars

\* a forced call over an existing output that failed after the calibration
\* and the Mueller correction had run
C14_Witness ==
    /\ MSICalled
    /\ msiIn.force /\ msiIn.mm_correct /\ msiIn.ip_correct
    /\ msiOut.status = "UnboundLocalError"
    /\ outfile = OldOutput

(***************************************************************************)
(* Claims about the radial-Stokes / product synthesizer.  The expected     *)
(* values are written out in plain rational arithmetic from the inputs.    *)
(***************************************************************************)
C18_x(p) == AngDouble(AngAdd(prodIn.thetas[p], prodIn.phi))
C18_Qphi(p) ==
    RSub(RSub(Zero, RMul(prodIn.frame[2][p], Cos(C18_x(p)))),
         RMul(prodIn.frame[3][p], Sin(C18_x(p))))
C18_Uphi(p) ==
    RSub(RMul(prodIn.frame[2][p], Sin(C18_x(p))),
         RMul(prodIn.frame[3][p], Cos(C18_x(p))))
\* hypot(a * e1, b * e2) for rationals a, b and error values e1, e2
C18_Hypot(a, e1, b, e2) ==
    LET q == RAdd(RMul(RMul(a, a), e1[2]), RMul(RMul(b, b), e2[2]))
    IN  <<Sign(q[1]), q>>
C18_QphiErr(p) ==
    C18_Hypot(Cos(C18_x(p)), prodIn.err.data[2][p],
              Sin(C18_x(p)), prodIn.err.data[3][p])
C18_UphiErr(p) ==
    C18_Hypot(Sin(C18_x(p)), prodIn.err.data[2][p],
              Cos(C18_x(p)), prodIn.err.data[3][p])

C19_PI2(p) ==
    RAdd(RMul(prodIn.frame[2][p], prodIn.frame[2][p]),
         RMul(prodIn.frame[3][p], prodIn.frame[3][p]))
\* a is the angle atan2(U, Q): the primitive integer vector along the ray
\* from the origin through (Q, U), and the angle 0 when Q = U = 0
C19_IsAtan2(a, U, Q) ==
    IF Q = Zero /\ U = Zero THEN a = <<1, 0>>
    ELSE /\ GCD(Abs(a[1]), Abs(a[2])) = 1
         /\ RMul(R(a[1]), U) = RMul(R(a[2]), Q)
         /\ RAdd(RMul(R(a[1]), Q), RMul(R(a[2]), U))[1] > 0
C19_PIErr(p) ==
    LET n == C18_Hypot(prodIn.frame[2][p], prodIn.err.data[2][p],
                       prodIn.frame[3][p], prodIn.err.data[3][p])[2]
        q == RDiv(n, C19_PI2(p))
    IN  <<Sign(q[1]), q>>
C19_AoLPErr(p) ==
    LET n == C18_Hypot(prodIn.frame[2][p], prodIn.err.data[3][p],
                       prodIn.frame[3][p], prodIn.err.data[2][p])[2]
        q == RDiv(n, RMul(C19_PI2(p), C19_PI2(p)))
    IN  <<Sign(q[1]), q>>

\* C19: stokes_products returns seven planes in the order I, Q, U, Qphi,
\* Uphi, PI, AoLP with PI = hypot(Q, U) and AoLP = atan2(U, Q) (the full
\* angle, no factor 1/2), and seven error planes in which
\* PI_err = hypot(Q*Q_err, U*U_err)/|PI| and
\* AoLP_err = hypot(Q*U_err, U*Q_err)/PI^2 (both NaN where PI = 0); planes
\* 0 to 2 of the data and of the errors are the inputs, unchanged.
C19_StokesProducts ==
    (op = "stokes_products" /\ prodOut.status = "ok") =>
        /\ Len(prodOut.data) = 7
        /\ Len(prodOut.data_err) = 7
        /\ \A i \in 1..3 : /\ prodOut.data[i] = prodIn.frame[i]
                           /\ prodOut.data_err[i] = prodIn.err.data[i]
        /\ \A p \in Pixels :
              /\ prodOut.data[4][p] = C18_Qphi(p)
              /\ prodOut.data[5][p] = C18_Uphi(p)
              /\ prodOut.data[6][p] = <<Sign(C19_PI2(p)[1]), C19_PI2(p)>>
              /\ C19_IsAtan2(prodOut.data[7][p], prodIn.frame[3][p],
                             prodIn.frame[2][p])
              /\ prodOut.data_err[4][p] = C18_QphiErr(p)
              /\ prodOut.data_err[5][p] = C18_UphiErr(p)
              /\ IF C19_PI2(p) = Zero
                 THEN /\ IsNaN(prodOut.data_err[6][p][2])
                      /\ IsNaN(prodOut.data_err[7][p][2])
                 ELSE /\ prodOut.data_err[6][p] = C19_PIErr(p)
                      /\ prodOut.data_err[7][p] = C19_AoLPErr(p)

C19_Witness ==
    /\ op = "stokes_products"
    /\ prodOut.status = "ok"
    /\ \E p \in Pixels : /\ prodIn.frame[2][p] # Zero
                         /\ prodIn.frame[3][p] # Zero
                         /\ prodOut.data[6][p] # prodOut.data[7][p]
                         /\ prodOut.data_err[6][p] # prodOut.data_err[7][p]
                         /\ prodOut.data[7][p][2] < 0

C20_y(p) ==
    AngAdd(AngDouble(prodIn.thetas[p]), AngDouble(AngDouble(prodIn.phi)))

\* C20 as stated: radial_stokes with offset phi followed by rotate_stokes
\* by -phi gives back the original Q and U at every pixel.
C20_RoundTrip ==
    op = "rotate_stokes" =>
        \A p \in Pixels : /\ prodOut.cube[2][p] = prodIn.frame[2][p]
                          /\ prodOut.cube[3][p] = prodIn.frame[3][p]

\* C20: radial_stokes with offset phi followed by rotate_stokes by -phi
\* leaves I alone and gives, at every pixel, the radial Stokes parameters of
\* offset 2*phi: -Q*cos(2*theta + 4*phi) - U*sin(2*theta + 4*phi) in plane 1
\* and Q*sin(2*theta + 4*phi) - U*cos(2*theta + 4*phi) in plane 2.
C20_RotatedRadial ==
    op = "rotate_stokes" =>
        /\ prodOut.cube[1] = prodIn.frame[1]
        /\ \A p \in Pixels :
              /\ prodOut.cube[2][p] =
                    RSub(RSub(Zero, RMul(prodIn.frame[2][p], Cos(C20_y(p)))),
                         RMul(prodIn.frame[3][p], Sin(C20_y(p))))
              /\ prodOut.cube[3][p] =
                    RSub(RMul(prodIn.frame[2][p], Sin(C20_y(p))),
                         RMul(prodIn.frame[3][p], Cos(C20_y(p))))

C20_Witness ==
    /\ op = "rotate_stokes"
    /\ Sin(AngDouble(prodIn.phi)) # Zero
    /\ Cos(AngDouble(prodIn.phi)) # Zero
    /\ \E p \in Pixels : /\ prodIn.frame[2][p] # Zero
                         /\ prodIn.frame[3][p] # Zero
                         /\ prodOut.cube[2][p] # prodIn.frame[2][p]

(***************************************************************************)
(* Claims about the Mueller-matrix correction.                             *)
(***************************************************************************)
MQ(i) == Py(mmIn.mmQ, i)
MU(i) == Py(mmIn.mmU, i)
Invertible == RSub(RMul(MQ(1), MU(2)), RMul(MQ(2), MU(1))) # Zero

(***************************************************************************)
(* C8: for every pixel and every invertible M = [[mQ[1], mQ[2]],           *)
(* [mU[1], mU[2]]] the corrected values solve M applied to (Q'', U''):     *)
(* mQ[1]*Q'' + mQ[2]*U'' = Q' and mU[1]*Q'' + mU[2]*U'' = U', with Q', U'  *)
(* the IP-corrected values.                                                *)
(***************************************************************************)
C8_SolvesMApplied ==
    (op = "mm_correct" /\ Invertible) =>
        \A p \in Pixels :
            /\ RAdd(RMul(MQ(1), mmOut.Q[p]), RMul(MQ(2), mmOut.U[p])) = mmOut.Qip[p]
            /\ RAdd(RMul(MU(1), mmOut.Q[p]), RMul(MU(2), mmOut.U[p])) = mmOut.Uip[p]

(***************************************************************************)
(* C9: the IP removal gives Q' = Q - mQ[0]*I and U' = U - mU[0]*I with I   *)
(* unchanged; the errors are Q_err = hypot(I_err, mQ[0]*I_err) and         *)
(* U_err = hypot(I_err, mU[0]*I_err) with I_err unchanged; the cross-talk  *)
(* solve changes neither I nor an error map.                               *)
(***************************************************************************)
C9_IPRemovalAndErrors ==
    (op = "mm_correct") =>
        \A p \in Pixels :
            LET f == mmIn.f
                e2 == f.I_err[p][2]      \* I_err squared
            IN  /\ mmOut.I[p] = f.I[p]
                /\ mmOut.Qip[p] = RSub(f.Q[p], RMul(MQ(0), f.I[p]))
                /\ mmOut.Uip[p] = RSub(f.U[p], RMul(MU(0), f.I[p]))
                /\ mmOut.I_err[p] = f.I_err[p]
                \* hypot(a, b) is the value >= 0 whose square is a^2 + b^2
                /\ mmOut.Q_err[p][1] >= 0 /\ mmOut.U_err[p][1] >= 0
                /\ mmOut.Q_err[p][2] = RAdd(e2, RMul(RMul(MQ(0), MQ(0)), e2))
                /\ mmOut.U_err[p][2] = RAdd(e2, RMul(RMul(MU(0), MU(0)), e2))

C9_Witness ==
    /\ op = "mm_correct"
    /\ MQ(0) # Zero /\ MU(0) # Zero /\ MQ(0) # MU(0)
    /\ \E p \in Pixels : mmIn.f.I[p] # Zero /\ mmOut.Qip[p] # mmIn.f.Q[p]
    /\ \E p \in Pixels : mmOut.Q[p] # mmOut.Qip[p]

(***************************************************************************)
(* C10: with mQ = [0,1,0,0] and mU = [0,0,1,0] the correction leaves Q and *)
(* U unchanged at every pixel, for every input, and applying it again      *)
(* changes nothing.                                                        *)
(***************************************************************************)
IdentityRows ==
    /\ mmIn.mmQ = <<Zero, One, Zero, Zero>>
    /\ mmIn.mmU = <<Zero, Zero, One, Zero>>

C10_IdentityRowsChangeNothing ==
    (op \in {"mm_correct", "mm_correct_again"} /\ IdentityRows) =>
        /\ mmOut.Q = mmIn.f.Q
        /\ mmOut.U = mmIn.f.U
        /\ mmOut.I = mmIn.f.I

C10_Witness ==
    /\ op = "mm_correct_again"
    /\ IdentityRows
    /\ \E p \in Pixels : mmOut.Q[p] # Zero /\ mmOut.U[p] # Zero /\ mmOut.I[p] # Zero

(***************************************************************************)
(* C21 (the cross-talk part): a singular matrix M = [[mQ[1], mQ[2]],       *)
(* [mU[1], mU[2]]] lets the correction return, and the degenerate solve    *)
(* shows as NaN or Inf in the Q or U it returns.                           *)
(***************************************************************************)
C21_SingularSolveIsNonFinite ==
    (op = "mm_correct" /\ ~Invertible) =>
        \E p \in Pixels : ~IsFinite(mmOut.Q[p]) \/ ~IsFinite(mmOut.U[p])

(***************************************************************************)
(* Claims about concurrent cycles.                                         *)
(***************************************************************************)
Alone(w) == make_stokes_image(workers[w].args, workers[w].out0)

\* C22: in every interleaving of the calls of a pool, a call that has ended
\* has returned or raised what it does when run alone and left at its
\* outpath the file it leaves when run alone, whatever the other calls did
\* (failed, wrote, or are still running); until a call ends, the file at its
\* outpath is the one that was there before.
C22_CyclesIndependent ==
    \A w \in Workers :
        IF workers[w].pc \in {"done", "failed"}
        THEN /\ outpaths[w] = Alone(w).outfile
             /\ workers[w].res = Alone(w).res
        ELSE outpaths[w] = workers[w].out0

\* one call has written its cube while the other, started before that
\* write, failed; the two outpaths hold different files
C22_Witness ==
    /\ workers[1].pc = "done"
    /\ workers[1].res.step = "written"
    /\ workers[2].pc = "failed"
    /\ workers[2].res.status = "UnboundLocalError"
    /\ outpaths[2] = OldOutput
    /\ outpaths[1] # outpaths[2]

(***************************************************************************)
(* Claims about the dependence of a pixel of the output on the pixels of   *)
(* the input.                                                              *)
(***************************************************************************)
BothWritten ==
    /\ op = "pair"
    /\ depOut[1].res.status = "ok"
    /\ depOut[2].res.status = "ok"
\* I, Q, U and their errors at the pixel p of the cube a call wrote
AtPixel(o, p) ==
    <<o.outfile.data[1][p], o.outfile.data[2][p], o.outfile.data[3][p],
      o.outfile.err[1][p], o.outfile.err[2][p], o.outfile.err[3][p]>>
\* cQ and cU of the call, as written to its header
Scalars(o) == <<o.outfile.header["IP_FQ"], o.outfile.header["IP_FU"]>>

C24_Merged(key) == combine_frames_headers(HeadersOf(filenames, key))

\* C24: every header that polarization_calibration_triplediff / _doublediff
\* returns (PRIMARY and each field) has a TINT exactly when the merge of its
\* input headers has one, and then carries half of the merged value; its
\* other keys are those of the merge, unchanged.
C24_TintHalvedOnce ==
    (C16_CalReturned) =>
        /\ DOMAIN cal.hdrs = {"PRIMARY", "F1"}
        /\ \A key \in DOMAIN cal.hdrs :
              /\ DOMAIN cal.hdrs[key] = DOMAIN C24_Merged(key)
              /\ \A k \in DOMAIN cal.hdrs[key] :
                    IF k = "TINT"
                    THEN RMul(Two, cal.hdrs[key][k]) = C24_Merged(key)[k]
                    ELSE cal.hdrs[key][k] = C24_Merged(key)[k]

\* a calibration whose primary header has a TINT and whose field header has
\* none
C24_Witness ==
    /\ C16_CalReturned
    /\ "TINT" \in DOMAIN cal.hdrs["PRIMARY"]
    /\ cal.hdrs["PRIMARY"]["TINT"] # Zero
    /\ "TINT" \notin DOMAIN cal.hdrs["F1"]

(***************************************************************************)
(* Claims about the ip_method that make_stokes_image hands on.             *)
(***************************************************************************)
\* C26: whenever make_stokes_image is called with ip_correct set, with any
\* ip_method it accepts and its own default among them, the scalar
\* correction finds cQ and cU bound: no call ends in UnboundLocalError.
C26_MethodSelectsStrategy ==
    (MSICalled /\ msiIn.ip_correct /\ msiIn.ip_method \in IPMethods) =>
        msiOut.status # "UnboundLocalError"

\* the call with the default ip_method that reaches the scalar correction
C26_DefaultUnbound ==
    /\ MSICalled /\ msiIn.ip_correct /\ msiIn.ip_method = DefaultIPMethod
    /\ msiIn.method = "triplediff" /\ ~msiIn.mm_correct
    /\ msiOut.status = "UnboundLocalError"

(***************************************************************************)
(* Claims about the up-to-date test of make_stokes_image.                  *)
(***************************************************************************)
\* the modification times of the files a call reads: the frames of path_set
\* and, when the Mueller correction is on, the files of mm_paths
C27_ReadTimes ==
    {msiIn.path_mtime} \cup
    (IF msiIn.mm_correct /\ ~msiIn.mm_paths.none /\
        msiIn.method \in {"triplediff", "doublediff"}
     THEN {msiIn.mm_mtime} ELSE {})

\* C27: make_stokes_image returns the existing outpath without recomputing
\* only when force is off, outpath exists and no file the call would read
\* (frame of path_set or file of mm_paths) is newer than it; with force on
\* it always recomputes.
C27_NeverStale ==
    (MSICalled /\ msiOut.step = "up to date") =>
        /\ ~msiIn.force
        /\ outfile.exists
        /\ \A t \in C27_ReadTimes : t <= outfile.mtime

\* the old output is returned although a Mueller-matrix file is newer
C27_StaleReturned ==
    /\ MSICalled /\ msiOut.step = "up to date"
    /\ msiIn.mm_correct /\ ~msiIn.mm_paths.none
    /\ msiIn.mm_mtime > outfile.mtime
    /\ outfile = OldOutput

(***************************************************************************)
(* The legacy triple-difference of polarization.py.  A frame carries the   *)
(* header keys the function sorts by and the key it checks: DATE,          *)
(* U_PLSTIT, U_FLCSTT (1 or 2), U_CAMERA, U_HWPANG (tenths of a degree)    *)
(* and D_IMRPAD, and its image.                                            *)
(***************************************************************************)
\* lexicographic order of the sort keys of two rows of the table
SortKey(f) == <<f.DATE, f.U_PLSTIT, f.U_FLCSTT, f.U_CAMERA>>
KeyLess(a, b) ==
    \E k \in 1..4 : a[k] < b[k] /\ \A j \in 1..(k - 1) : a[j] = b[j]

\* sort_values: the rows in ascending order of their sort keys (the rows of
\* the tables below have distinct sort keys)
sort_values(rows) ==
    [i \in DOMAIN rows |->
        rows[CHOOSE j \in DOMAIN rows :
                Cardinality({k \in DOMAIN rows :
                                KeyLess(SortKey(rows[k]), SortKey(rows[j]))}) = i - 1]]

RECURSIVE SumAng(_, _)
SumAng(tbl, idx) ==
    IF idx = {} THEN 0
    ELSE LET i == CHOOSE i \in idx : TRUE
         IN  tbl[i].U_HWPANG + SumAng(tbl, idx \ {i})

\* reshape((-1, 4, 4)).mean(axis=(0, 2)) != (0, 45, 22.5, 67.5): the mean is
\* taken over the four frames of slot k of every cycle together
HwpSetsWrong(tbl) ==
    LET n == Len(tbl) \div 16
        Slot(k) == {c * 16 + (k - 1) * 4 + j : c \in 0..(n - 1), j \in 1..4}
    IN  \E k \in 1..4 : SumAng(tbl, Slot(k)) # 4 * n * AngleSeq[k]

RECURSIVE SumFrames(_, _, _)
SumFrames(cube, lo, hi) ==
    IF lo = hi THEN cube[lo]
    ELSE LET mid == (lo + hi) \div 2
         IN  AAdd(SumFrames(cube, lo, mid), SumFrames(cube, mid + 1, hi))

\* the loop with the two camera differences of a group added
LegacySetAdded(image_cube, ix) ==
    LET c(k) == image_cube[ix + k + 1]
        D(k) == HalfSum(ASub(c(k), c(k + 2)), ASub(c(k + 1), c(k + 3)))
    IN  <<AScale(Rat(2, 16), SumFrames(image_cube, ix + 1, ix + 16)),
          HalfDiff(D(0), D(4)), HalfDiff(D(8), D(12))>>

\* one pass of the loop over the HWP sets; ix is the offset of the set
LegacySet(image_cube, ix) ==
    LET c(k) == image_cube[ix + k + 1]
        pQ0 == ASub(c(0), c(2))
        mQ0 == ASub(c(1), c(3))
        Q0 == HalfDiff(pQ0, mQ0)
        pQ1 == ASub(c(4), c(6))
        mQ1 == ASub(c(5), c(7))
        Q1 == HalfDiff(pQ1, mQ1)
        pU0 == ASub(c(8), c(10))
        mU0 == ASub(c(9), c(11))
        U0 == HalfDiff(pU0, mU0)
        pU1 == ASub(c(12), c(14))
        mU1 == ASub(c(13), c(15))
        U1 == HalfDiff(pU1, mU1)
    IN  <<AScale(Rat(2, 16), SumFrames(image_cube, ix + 1, ix + 16)),
          HalfDiff(Q0, Q1), HalfDiff(U0, U1)>>

legacy_triplediff(files) ==
    IF Len(files) % 16 # 0
    THEN [status |-> "ValueError", sets |-> <<>>]
    ELSE LET tbl == sort_values(files)
         IN  IF HwpSetsWrong(tbl)
             THEN [status |-> "ValueError", sets |-> <<>>]
             ELSE LET image_cube == [i \in DOMAIN tbl |-> tbl[i].data]
                  IN  [status |-> "ok",
                       sets |-> [i \in 1..(Len(tbl) \div 16) |->
                                    LegacySet(image_cube, (i - 1) * 16)]]

\* the offset added to D_IMRPAD, in tenths of a degree
PupilOffset == 1404

\* triplediff_average_angles: on success, for each set of 16 the angles
\* handed to average_angle
triplediff_average_angles(files) ==
    IF Len(files) % 16 # 0
    THEN [status |-> "ValueError", sets |-> <<>>]
    ELSE LET tbl == sort_values(files)
         IN  IF HwpSetsWrong(tbl)
             THEN [status |-> "ValueError", sets |-> <<>>]
             ELSE [status |-> "ok",
                   sets |-> [i \in 1..(Len(tbl) \div 16) |->
                                [k \in 1..16 |->
                                    tbl[(i - 1) * 16 + k].D_IMRPAD + PupilOffset]]]

\* the HWP angle of the frame at place i of the sorted table: the cycle 0,
\* 45, 22.5, 67.5; the angles in ascending order; the cycle with the second
\* group 22.5, 67.5, 45, 45; or ascending angles in the first cycle and
\* 0, 67.5, 0, 67.5 in the next
LegAngleKinds == {"cycle", "ascending", "mixed", "cross"}
LegAngle(i, kind) ==
    LET cyc == (i - 1) \div 16
        g == (((i - 1) % 16) \div 4) + 1
        j == ((i - 1) % 4) + 1
    IN  CASE kind = "cycle" -> AngleSeq[g]
          [] kind = "ascending" -> <<Ang0, Ang22, Ang45, Ang67>>[g]
          [] kind = "mixed" ->
                IF g = 2 THEN <<Ang22, Ang67, Ang45, Ang45>>[j] ELSE AngleSeq[g]
          [] kind = "cross" ->
                IF cyc = 0 THEN <<Ang0, Ang22, Ang45, Ang67>>[g]
                ELSE <<Ang0, Ang67, Ang0, Ang67>>[g]

\* the frame that the sort puts at place i.  With "state" the four frames of
\* a group share their DATE and are ordered by FLC state, then camera; with
\* "camera" every frame has a DATE of its own and a group runs camera 1
\* (state 1, state 2), then camera 2.
LegFrame(i, kind, order, b) ==
    LET j == (i - 1) % 4
    IN  [DATE |-> IF order = "state" THEN (i - 1) \div 4 ELSE i,
         U_PLSTIT |-> 1,
         U_FLCSTT |-> IF order = "state" THEN (j \div 2) + 1 ELSE (j % 2) + 1,
         U_CAMERA |-> IF order = "state" THEN (j % 2) + 1 ELSE (j \div 2) + 1,
         U_HWPANG |-> LegAngle(i, kind),
         D_IMRPAD |-> 10 * ((i - 1) \div 16) + j,
         data |-> [p \in Pixels |-> R(b + ((i * i + p) % 5))]]

LegCounts == {15, 16, 32}

\* the file list is handed over in the order of the sort or reversed
InitLeg ==
    /\ op = "init"
    /\ \E n \in LegCounts, kind \in LegAngleKinds, order \in {"state", "camera"},
          b \in 0..MaxVal, rev \in BOOLEAN :
          legIn = [i \in 1..n |->
                      LegFrame(IF rev THEN n + 1 - i ELSE i, kind, order, b)]
    /\ legOut = None
    /\ IdleComb /\ IdleMatch /\ IdleCal /\ IdleMM /\ IdleIP /\ IdleMSI /\ IdleProd
    /\ IdlePar /\ IdleDep /\ IdleAn /\ IdleCfg

LegTriplediff ==
    /\ op = "init"
    /\ op' = "legacy_triplediff"
    /\ legOut' = legacy_triplediff(legIn)
    /\ UNCHANGED <<frames, stokes, table, anchor, matched, filenames, opened,
                   cal, mmIn, mmOut, ipIn, ipOut, msiIn, outfile, msiOut,
                   prodIn, prodOut, workers, outpaths, depIn, depOut, legIn,
                   anIn, anOut, cfgIn, cfgOut>>

LegAverageAngles ==
    /\ op = "init"
    /\ op' = "triplediff_average_angles"
    /\ legOut' = triplediff_average_angles(legIn)
    /\ UNCHANGED <<frames, stokes, table, anchor, matched, filenames, opened,
                   cal, mmIn, mmOut, ipIn, ipOut, msiIn, outfile, msiOut,
                   prodIn, prodOut, workers, outpaths, depIn, depOut, legIn,
                   anIn, anOut, cfgIn, cfgOut>>

NextLeg == LegTriplediff \/ LegAverageAngles

SpecLeg == InitLeg /\ [][NextLeg]_vars

(***************************************************************************)
(* Claims about the legacy triple-difference.                              *)
(***************************************************************************)
LegCalled == op \in {"legacy_triplediff", "triplediff_average_angles"}

\* every 16-frame cycle of the sorted table is four frames at HWP 0, four at
\* 45, four at 22.5 and four at 67.5
ValidCycles(tbl) ==
    \A i \in DOMAIN tbl : tbl[i].U_HWPANG = AngleSeq[(((i - 1) % 16) \div 4) + 1]

\* C25: the legacy polarization_calibration_triplediff and
\* triplediff_average_angles return normally only when the list is a
\* multiple of 16 and every 16-frame cycle of the sorted table is four
\* frames at HWP 0, then 45, then 22.5, then 67.5.
C25_WrongCycleFails ==
    (LegCalled /\ legOut.status = "ok") =>
        /\ Len(legIn) % 16 = 0
        /\ ValidCycles(sort_values(legIn))

\* a difference was computed on a cycle whose second group is not at 45
C25_WrongCycleDifferenced ==
    /\ op = "legacy_triplediff" /\ legOut.status = "ok"
    /\ Len(legOut.sets) = 1
    /\ sort_values(legIn)[5].U_HWPANG = Ang22

\* the dictionary of the frames of cycle c of the sorted table, FLC state 1
\* as "A" and state 2 as "B"
CycleDict(tbl, c) ==
    [key \in TRIPLEDIFF_SETS |->
        tbl[CHOOSE i \in ((c - 1) * 16 + 1)..(c * 16) :
                /\ tbl[i].U_HWPANG = key[1]
                /\ FLCSeq[tbl[i].U_FLCSTT] = key[2]
                /\ tbl[i].U_CAMERA = key[3]].data]

\* each group of four of the sorted table holds the two states of the two
\* cameras, state-major or camera-major
GroupsComplete(tbl) ==
    \A i \in DOMAIN tbl :
        LET j == (i - 1) % 4
            f == tbl[i] 
        IN  \/ f.U_FLCSTT = (j \div 2) + 1 /\ f.U_CAMERA = (j % 2) + 1
            \/ f.U_FLCSTT = (j % 2) + 1 /\ f.U_CAMERA = (j \div 2) + 1

CameraMajor(tbl) == \A i \in DOMAIN tbl : tbl[i].U_CAMERA = (((i - 1) % 4) \div 2) + 1

\* C28: on every valid cycle whose groups are ordered state-major or
\* camera-major, the legacy I, Q and U are 2 times the I, Q and U that
\* triple_diff_dict computes from the same frames.
C28_LegacyIsTwiceDict ==
    (op = "legacy_triplediff" /\ legOut.status = "ok"
        /\ ValidCycles(sort_values(legIn)) /\ GroupsComplete(sort_values(legIn))) =>
        \A c \in DOMAIN legOut.sets :
            LET d == triple_diff_dict(CycleDict(sort_values(legIn), c))
            IN  \A s \in 1..3 : legOut.sets[c][s] = AScale(Two, d[s])

\* two cycles, ordered camera-major and handed over in reverse, with a Q
\* that is not zero
C28_Witness ==
    /\ op = "legacy_triplediff" /\ legOut.status = "ok"
    /\ Len(legOut.sets) = 2
    /\ ValidCycles(sort_values(legIn))
    /\ CameraMajor(sort_values(legIn))
    /\ legIn[1].DATE > legIn[2].DATE
    /\ \E p \in Pixels : legOut.sets[1][2][p] # Zero

(***************************************************************************)
(* analyze_file of analysis.py.  A frame is the sequence of its fields     *)
(* (one field unless the data are multiband), a field is known by its      *)
(* total flux and by whether it was recentred; a header maps pairs         *)
(* <<keyword, field letter>> to values.  PSF fitting and aperture          *)
(* photometry are services outside the module: of their results the        *)
(* header keeps here the keys whose values the frame determines.           *)
(***************************************************************************)
HeaderKeys == <<"A", "B", "C", "D">>

\* header[key] = value
SetCard(header, key, value) ==
    [k \in DOMAIN header \cup {key} |-> IF k = key THEN value ELSE header[k]]

\* "MBI" in header["OBS-MOD"].upper(), for the observing modes of the inputs
ObsModes == {"IPOL", "IPOL_MBI", "ipol_mbir"}
Upper(mode) ==
    CASE mode = "ipol_mbir" -> "IPOL_MBIR"
      [] OTHER -> mode
IsMBI(header) == Upper(header[<<"OBS-MOD", "">>]) \in {"IPOL_MBI", "IPOL_MBIR"}

analyze_frame(field, aper_rad, header, header_key) ==
    LET h1 == SetCard(header, <<"MODEL", "">>, "gaussian")
        h2 == SetCard(h1, <<"FLUX", header_key>>, field.flux)
        h3 == SetCard(h2, <<"PHOTRAD", header_key>>, aper_rad)
        h4 == SetCard(h3, <<"SUMFLUX", header_key>>, field.flux)
    IN  <<[field EXCEPT !.recentered = TRUE], h4>>

analyze_satspots_frame(field, aper_rad, header, header_key) ==
    LET h1 == SetCard(header, <<"MODEL", "">>, "gaussian")
        h2 == SetCard(h1, <<"PHOTFLX", header_key>>, field.flux)
        h3 == SetCard(h2, <<"PHOTRAD", header_key>>, aper_rad)
        h4 == SetCard(h3, <<"SUMFLUX", header_key>>, field.flux)
    IN  <<[field EXCEPT !.recentered = TRUE], h4>>

AnalyzeOne(field, aper_rad, header, header_key, coronagraphic) ==
    IF coronagraphic THEN analyze_satspots_frame(field, aper_rad, header, header_key)
    ELSE analyze_frame(field, aper_rad, header, header_key)

\* the loop over zip(range(frame.shape[0]), ("A", "B", "C", "D")): the
\* fields 1..i analysed, the header carried from field to field
RECURSIVE AnalyzeFields(_, _, _, _, _)
AnalyzeFields(frame, aper_rad, header, coronagraphic, i) ==
    IF i = 0 THEN <<frame, header>>
    ELSE LET prev == AnalyzeFields(frame, aper_rad, header, coronagraphic, i - 1)
             r == AnalyzeOne(prev[1][i], aper_rad, prev[2], HeaderKeys[i],
                             coronagraphic)
         IN  <<[prev[1] EXCEPT ![i] = r[1]], r[2]>>

analyze_file(a) ==
    IF ~a.force /\ a.outpath.exists /\ a.path.mtime < a.outpath.mtime
    THEN [frame |-> a.path.frame, header |-> a.path.header]
    ELSE IF IsMBI(a.header)
    THEN LET r == AnalyzeFields(a.frame, a.aper_rad, a.header, a.coronagraphic,
                                Min(Len(a.frame), Len(HeaderKeys)))
         IN  [frame |-> r[1], header |-> r[2]]
    ELSE LET r == AnalyzeOne(a.frame[1], a.aper_rad, a.header, "", a.coronagraphic)
         IN  [frame |-> <<r[1]>>, header |-> r[2]]

\* the inputs: the frame in memory has the flux b + i in field i, the file
\* it came from holds the flux of the raw frame, and the analyzed file, if
\* there is one, holds the analysis of an earlier call
AperRad == 4
AnFrame(n, b) == [i \in 1..n |-> [flux |-> b + i, recentered |-> FALSE]]
AnHeader(mode) == [k \in {<<"OBS-MOD", "">>} |-> mode]
AnMTimes == {1, 2, 3}

InitAn ==
    /\ op = "init"
    /\ \E mode \in ObsModes, b \in 0..MaxVal, raw \in 0..MaxVal,
          cor \in BOOLEAN, frc \in BOOLEAN, t \in {0} \cup AnMTimes :
       \E n \in (IF mode = "IPOL" THEN {1} ELSE 1..3) :
          anIn = [frame |-> AnFrame(n, b), header |-> AnHeader(mode),
                  path |-> [frame |-> AnFrame(n, raw), header |-> AnHeader(mode),
                            mtime |-> 2],
                  outpath |-> IF t = 0 THEN Absent
                              ELSE [exists |-> TRUE, mtime |-> t,
                                    frame |-> [i \in 1..n |->
                                                 [flux |-> raw + i, recentered |-> TRUE]],
                                    header |-> SetCard(AnHeader(mode),
                                                       <<"MODEL", "">>, "gaussian")],
                  aper_rad |-> AperRad, coronagraphic |-> cor, force |-> frc]
    /\ anOut = None
    /\ IdleComb /\ IdleMatch /\ IdleCal /\ IdleMM /\ IdleIP /\ IdleMSI /\ IdleProd
    /\ IdlePar /\ IdleDep /\ IdleLeg /\ IdleCfg

AnalyzeFile ==
    /\ op = "init"
    /\ op' = "analyze_file"
    /\ anOut' = analyze_file(anIn)
    /\ UNCHANGED <<frames, stokes, table, anchor, matched, filenames, opened,
                   cal, mmIn, mmOut, ipIn, ipOut, msiIn, outfile, msiOut,
                   prodIn, prodOut, workers, outpaths, depIn, depOut, legIn,
                   legOut, anIn, cfgIn, cfgOut>>

NextAn == AnalyzeFile

SpecAn == InitAn /\ [][NextAn]_vars

(***************************************************************************)
(* Claims about analyze_file.                                              *)
(***************************************************************************)
AnSkipped ==
    /\ op = "analyze_file"
    /\ ~anIn.force /\ anIn.outpath.exists /\ anIn.path.mtime < anIn.outpath.mtime

\* C29: a call that is not forced and finds an analyzed file newer than the
\* input returns the frame and header stored in the analyzed file; any
\* other call returns the analysis of the frame passed in, its fields
\* recentred and its header carrying the model name.
C29_SkipReturnsAnalyzed ==
    op = "analyze_file" =>
        IF AnSkipped
        THEN /\ anOut.frame = anIn.outpath.frame
             /\ anOut.header = anIn.outpath.header
        ELSE /\ \A i \in DOMAIN anOut.frame :
                    /\ anOut.frame[i].flux = anIn.frame[i].flux
                    /\ anOut.frame[i].recentered
             /\ anOut.header[<<"MODEL", "">>] = "gaussian"

\* a skipped call returned the raw frame of the input file
C29_RawReturned ==
    /\ AnSkipped
    /\ anOut.frame = anIn.path.frame
    /\ anOut.frame # anIn.outpath.frame
    /\ <<"MODEL", "">> \notin DOMAIN anOut.header

(***************************************************************************)
(* The configuration upgrade of pipeline/deprecation.py.  A configuration  *)
(* is a function from its keys to values, its "polarimetry" section a      *)
(* function too.                                                           *)
(***************************************************************************)
\* Version(s): the release numbers of a version string
VersionStrings == {"0.5", "0.6", "0.7", "0.10"}
Version(s) ==
    CASE s = "0.5" -> <<0, 5>>
      [] s = "0.6" -> <<0, 6>>
      [] s = "0.7" -> <<0, 7>>
      [] s = "0.10" -> <<0, 10>>

VersionLess(a, b) == a[1] < b[1] \/ (a[1] = b[1] /\ a[2] < b[2])

DelKey(d, key) == [k \in DOMAIN d \ {key} |-> d[k]]

\* the dictionary is changed in place: a KeyError of the del leaves the two
\* assignments before it in the dictionary
upgrade_to_0p7(config_dict) ==
    IF "polarimetry" \in DOMAIN config_dict
    THEN LET pol == config_dict["polarimetry"]
             p1 == SetCard(pol, "method", "difference")
             adi_sync == ~(IF "derotate_pa" \in DOMAIN pol
                           THEN pol["derotate_pa"] ELSE FALSE)
             p2 == SetCard(p1, "adi_sync", adi_sync)
         IN  IF "derotate_pa" \in DOMAIN p2
             THEN [status |-> "ok",
                   config |-> [config_dict EXCEPT
                                 !["polarimetry"] = DelKey(p2, "derotate_pa")]]
             ELSE [status |-> "KeyError",
                   config |-> [config_dict EXCEPT !["polarimetry"] = p2]]
    ELSE [status |-> "ok", config |-> config_dict]

\* upgrade_config up to the construction of the Pipeline
upgrade_config(config_dict) ==
    IF VersionLess(Version(config_dict["version"]), Version("0.7"))
    THEN upgrade_to_0p7(config_dict)
    ELSE [status |-> "ok", config |-> config_dict]

\* the configurations: a name, a version, and perhaps a polarimetry section
\* with any of derotate_pa, method and ip_correct
PolSections ==
    {[k \in ks |-> CASE k = "derotate_pa" -> d
                     [] k = "method" -> "mueller"
                     [] k = "ip_correct" -> TRUE] :
        ks \in SUBSET {"derotate_pa", "method", "ip_correct"}, d \in BOOLEAN}

Configs ==
    {[k \in {"name", "version"} |-> IF k = "name" THEN n ELSE v] :
        n \in {"abaur", "hd169142"}, v \in VersionStrings}
    \cup
    {[k \in {"name", "version", "polarimetry"} |->
        CASE k = "name" -> "abaur" [] k = "version" -> v [] k = "polarimetry" -> pol] :
        v \in VersionStrings, pol \in PolSections}

InitCfg ==
    /\ op = "init"
    /\ cfgIn \in Configs
    /\ cfgOut = None
    /\ IdleComb /\ IdleMatch /\ IdleCal /\ IdleMM /\ IdleIP /\ IdleMSI /\ IdleProd
    /\ IdlePar /\ IdleDep /\ IdleLeg /\ IdleAn

UpgradeTo0p7 ==
    /\ op = "init"
    /\ op' = "upgrade_to_0p7"
    /\ cfgOut' = upgrade_to_0p7(cfgIn)
    /\ UNCHANGED <<frames, stokes, table, anchor, matched, filenames, opened,
                   cal, mmIn, mmOut, ipIn, ipOut, msiIn, outfile, msiOut,
                   prodIn, prodOut, workers, outpaths, depIn, depOut, legIn,
                   legOut, anIn, anOut, cfgIn>>

UpgradeConfig ==
    /\ op = "init"
    /\ op' = "upgrade_config"
    /\ cfgOut' = upgrade_config(cfgIn)
    /\ UNCHANGED <<frames, stokes, table, anchor, matched, filenames, opened,
                   cal, mmIn, mmOut, ipIn, ipOut, msiIn, outfile, msiOut,
                   prodIn, prodOut, workers, outpaths, depIn, depOut, legIn,
                   legOut, anIn, anOut, cfgIn>>

NextCfg == UpgradeTo0p7 \/ UpgradeConfig

SpecCfg == InitCfg /\ [][NextCfg]_vars

(***************************************************************************)
(* Claims about the configuration upgrade.                                 *)
(***************************************************************************)
\* what the 0.7 step is to make of a configuration
Upgraded(config, out) ==
    IF "polarimetry" \in DOMAIN config
    THEN /\ DOMAIN out = DOMAIN config
         /\ \A k \in DOMAIN config \ {"polarimetry"} : out[k] = config[k]
         /\ LET pol == config["polarimetry"]
                new == out["polarimetry"]
            IN  /\ DOMAIN new = (DOMAIN pol \ {"derotate_pa"}) \cup {"method", "adi_sync"}
                /\ new["method"] = "difference"
                /\ new["adi_sync"] = ~(IF "derotate_pa" \in DOMAIN pol
                                       THEN pol["derotate_pa"] ELSE FALSE)
                /\ \A k \in DOMAIN pol \ {"derotate_pa", "method"} : new[k] = pol[k]
    ELSE out = config

\* C30: upgrade_to_0p7 succeeds on every configuration and returns it
\* upgraded (method "difference", adi_sync the negation of derotate_pa,
\* no derotate_pa; unchanged without a polarimetry section), and
\* upgrade_config applies the step exactly to versions below 0.7.
C30_UpgradeSucceeds ==
    /\ op = "upgrade_to_0p7" =>
          cfgOut.status = "ok" /\ Upgraded(cfgIn, cfgOut.config)
    /\ op = "upgrade_config" =>
          /\ cfgOut.status = "ok"
          /\ IF cfgIn["version"] \in {"0.5", "0.6"}
             THEN Upgraded(cfgIn, cfgOut.config)
             ELSE cfgOut.config = cfgIn

\* the same for the configurations whose polarimetry section, if any, has
\* a derotate_pa
C30_UpgradeWithDerotatePa ==
    ("polarimetry" \in DOMAIN cfgIn => "derotate_pa" \in DOMAIN cfgIn["polarimetry"])
        => C30_UpgradeSucceeds

\* a polarimetry section without derotate_pa ends the step in a KeyError
C30_KeyError ==
    /\ op = "upgrade_to_0p7"
    /\ "polarimetry" \in DOMAIN cfgIn
    /\ "derotate_pa" \notin DOMAIN cfgIn["polarimetry"]
    /\ cfgOut.status = "KeyError"

====
